---- MODULE Spec2Model ----
(***************************************************************************)
(* RentEase backend: the document store (users, flats, messages, hosted    *)
(* images), the request handlers of the Auth, Flat, Message and Admin      *)
(* controllers, and the listing query engine (filter / sort / paginate).   *)
(***************************************************************************)
EXTENDS Integers, Sequences, FiniteSets, TLC

VARIABLES users, flats, messages, cloud, nextUser, nextFlat, nextMsg, nextImg,
          now, today, tokens, nextReset, resetLog, resp, session, steps,
          inflight, docVersion

vars == <<users, flats, messages, cloud, nextUser, nextFlat, nextMsg, nextImg,
          now, today, tokens, nextReset, resetLog, resp, session, steps,
          inflight, docVersion>>

store == <<users, flats, messages, cloud>>
auth == <<tokens, nextReset, resetLog>>
\* requests in progress and the version keys of the user documents
races == <<inflight, docVersion>>

(* ------------------------------ bounds --------------------------------- *)
MaxUsers == 3
MaxFlats == 2
MaxMsgs == 2
MaxImgs == 3
MaxTokens == 2
MaxTime == 2500
MaxQFlats == 2
MaxLen == 3
MaxPage == 3
MaxLimit == 2
MaxSteps == 4
MaxRouteSteps == 3
MaxAuthSteps == 4
MaxAccountSteps == 4

(* --------------------------- identifiers ------------------------------- *)
\* A path identifier is either a well-formed ObjectId (a positive number
\* here) or a malformed string (BadId).
BadId == -1
NoId == 0
UserIds == 1..MaxUsers
FlatIds == 1..MaxFlats
MsgIds == 1..MaxMsgs
ImgIds == 1..MaxImgs

\* mongoose.Types.ObjectId.isValid
ObjectIdIsValid(id) == id > 0

Roles == {"user", "admin"}

(* ------------------------- sequence helpers ---------------------------- *)
Range(s) == {s[i] : i \in 1..Len(s)}

\* Array.prototype.includes on a Mongoose id array
Includes(s, x) == x \in Range(s)

\* MongoDB $pull: removes every occurrence of x
Pull(s, x) == SelectSeq(s, LAMBDA e : e # x)

RECURSIVE IndexOfFrom(_, _, _)
IndexOfFrom(s, x, i) ==
  IF i > Len(s) THEN 0
  ELSE IF s[i] = x THEN i ELSE IndexOfFrom(s, x, i + 1)

\* Array.prototype.indexOf, 1-based, 0 when absent
IndexOf(s, x) == IndexOfFrom(s, x, 1)

\* Array.prototype.splice(index, 1)
Splice1(s, i) == SubSeq(s, 1, i - 1) \o SubSeq(s, i + 1, Len(s))

\* a function without the key k
Without(f, k) == [x \in (DOMAIN f) \ {k} |-> f[x]]

\* a function extended or overwritten at key k
With(f, k, v) == [x \in (DOMAIN f) \cup {k} |-> IF x = k THEN v ELSE f[x]]

(* ----------------------------- calendar -------------------------------- *)
Date(y, m, d) == [y |-> y, m |-> m, d |-> d]

\* Date comparison a <= b
DateLe(a, b) ==
  \/ a.y < b.y
  \/ a.y = b.y /\ a.m < b.m
  \/ a.y = b.y /\ a.m = b.m /\ a.d <= b.d

Today0 == Date(2026, 2, 1)

(* ----------------------------- responses ------------------------------- *)
Resp(op, status, caller, target) ==
  [op |-> op, status |-> status, caller |-> caller, target |-> target,
   data |-> <<>>, totalCount |-> 0, query |-> <<>>]

NoSession == [active |-> FALSE]

(* ------------------------------ records -------------------------------- *)
NoDate == -1

NewUser(email, password, birthDate, createdAt) ==
  [email |-> email, password |-> password, role |-> "user",
   birthDate |-> birthDate, favoriteFlats |-> <<>>, addedFlats |-> <<>>,
   passwordChangedAt |-> NoDate, passwordResetToken |-> NoId,
   passwordResetTokenExpires |-> NoDate, createdAt |-> createdAt]

NewFlat(owner, image, rentPrice, city, createdAt) ==
  [owner |-> owner, image |-> image, messages |-> <<>>,
   rentPrice |-> rentPrice, city |-> city, createdAt |-> createdAt]

NewMessage(flatId, senderId, createdAt) ==
  [flatId |-> flatId, senderId |-> senderId, createdAt |-> createdAt]

\* Model.findById: the record, when the id names one
Exists(coll, id) == id \in DOMAIN coll

\* flats with a given owner: Flat.find({ owner })
FlatsOwnedBy(u) == {f \in DOMAIN flats : flats[f].owner = u}

(* --------------------------- flat validation --------------------------- *)
\* flatSchema: rentPrice min 0.01; owner must cast to an ObjectId
FlatValid(flat) == flat.rentPrice >= 1 /\ ObjectIdIsValid(flat.owner)

Cities == {<<"Alba", "-", "Iulia">>, <<"Cluj">>}
MaxRent == 2

\* request bodies of PATCH /flats/:flatId: the empty body, a body with an
\* "owner" key, a body with a "rentPrice" key
FlatBodies ==
  {[key |-> "none", value |-> 0]}
  \cup {[key |-> "owner", value |-> u] : u \in UserIds \cup {BadId}}
  \cup {[key |-> "rentPrice", value |-> r] : r \in {0, 1}}

\* the ownership check widened to let an administrator (user 1) through
IsOwnerOrAdmin(flat, userId) == flat.owner = userId \/ userId = 1

\* FlatController.updateFlat step 3: the caller is the flat's owner
IsOwner(flat, userId) == flat.owner = userId

\* FlatController.updateFlat step 5: Object.entries(req.body).forEach
ApplyFlatBody(flat, body) ==
  IF body.key = "owner" THEN [flat EXCEPT !.owner = body.value]
  ELSE IF body.key = "rentPrice" THEN [flat EXCEPT !.rentPrice = body.value]
  ELSE flat

(* --------------------------- FlatController ---------------------------- *)
\* multer + cloudinary storage (upload.single('image')): the file, when the
\* request carries one, is stored before the handler runs
Uploaded(hasFile) == IF hasFile THEN cloud \cup {nextImg} ELSE cloud

\* a store operation of the handler that rejects (the database cannot be
\* reached, the write is refused): flat.save() or User.findByIdAndUpdate
StoreFaults == {"none", "save", "update"}

addFlatWhen(caller, hasFile, rentPrice, city, failing) ==
  /\ nextFlat <= MaxFlats
  /\ hasFile => nextImg <= MaxImgs
  /\ nextImg' = IF hasFile THEN nextImg + 1 ELSE nextImg
  /\ IF ~hasFile
       THEN /\ resp' = Resp("addFlat", 400, caller, NoId)
            /\ UNCHANGED <<users, flats, cloud, nextFlat>>
     ELSE LET flat == NewFlat(caller, nextImg, rentPrice, city, now) IN
          IF ~FlatValid(flat)
            THEN /\ resp' = Resp("addFlat", 400, caller, NoId)
                 /\ cloud' = Uploaded(TRUE) \ {nextImg}
                 /\ UNCHANGED <<users, flats, nextFlat>>
          ELSE IF failing = "save"
            THEN /\ resp' = Resp("addFlat", 500, caller, NoId)
                 /\ cloud' = Uploaded(TRUE) \ {nextImg}
                 /\ UNCHANGED <<users, flats, nextFlat>>
          ELSE IF failing = "update"
            THEN /\ flats' = With(flats, nextFlat, flat)
                 /\ nextFlat' = nextFlat + 1
                 /\ cloud' = Uploaded(TRUE) \ {nextImg}
                 /\ resp' = Resp("addFlat", 500, caller, NoId)
                 /\ UNCHANGED users
          ELSE /\ flats' = With(flats, nextFlat, flat)
               /\ users' = IF Exists(users, caller)
                             THEN [users EXCEPT ![caller].addedFlats = Append(@, nextFlat)]
                             ELSE users
               /\ cloud' = Uploaded(TRUE)
               /\ nextFlat' = nextFlat + 1
               /\ resp' = Resp("addFlat", 201, caller, nextFlat)
  /\ UNCHANGED <<messages, nextUser, nextMsg, now, today, auth, session, races>>

\* the handler when every store operation succeeds
addFlat(caller, hasFile, rentPrice, city) ==
  addFlatWhen(caller, hasFile, rentPrice, city, "none")

getFlatById(caller, flatId) ==
  /\ resp' = IF ~ObjectIdIsValid(flatId) THEN Resp("getFlatById", 400, caller, flatId)
             ELSE IF ~Exists(flats, flatId) THEN Resp("getFlatById", 404, caller, flatId)
             ELSE Resp("getFlatById", 200, caller, flatId)
  /\ UNCHANGED <<users, flats, messages, cloud, nextUser, nextFlat, nextMsg,
                 nextImg, now, today, auth, session, races>>

updateFlat(caller, flatId, hasFile, body) ==
  /\ hasFile => nextImg <= MaxImgs
  /\ nextImg' = IF hasFile THEN nextImg + 1 ELSE nextImg
  /\ IF ~ObjectIdIsValid(flatId)
       THEN /\ resp' = Resp("updateFlat", 400, caller, flatId)
            /\ cloud' = Uploaded(hasFile)
            /\ UNCHANGED flats
     ELSE IF ~Exists(flats, flatId)
       THEN /\ resp' = Resp("updateFlat", 404, caller, flatId)
            /\ cloud' = Uploaded(hasFile)
            /\ UNCHANGED flats
     ELSE IF ~IsOwner(flats[flatId], caller)
       THEN /\ resp' = Resp("updateFlat", 403, caller, flatId)
            /\ cloud' = Uploaded(hasFile)
            /\ UNCHANGED flats
     ELSE LET withImage == IF hasFile THEN [flats[flatId] EXCEPT !.image = nextImg]
                           ELSE flats[flatId]
              flat == ApplyFlatBody(withImage, body)
              \* step 4 destroys the old image before the save is attempted
              kept == IF hasFile THEN Uploaded(TRUE) \ {flats[flatId].image}
                      ELSE cloud
          IN /\ cloud' = kept
             /\ IF FlatValid(flat)
                  THEN /\ flats' = [flats EXCEPT ![flatId] = flat]
                       /\ resp' = Resp("updateFlat", 200, caller, flatId)
                  ELSE /\ resp' = Resp("updateFlat", 400, caller, flatId)
                       /\ UNCHANGED flats
  /\ UNCHANGED <<users, messages, nextUser, nextFlat, nextMsg, now, today,
                 auth, session, races>>

\* the cascade without step 6 (favorites are left alone)
DeleteFlatKeepFavorites(caller, flatId) ==
  /\ cloud' = cloud \ {flats[flatId].image}
  /\ messages' = [m \in {x \in DOMAIN messages : messages[x].flatId # flatId}
                    |-> messages[m]]
  /\ users' = [users EXCEPT ![caller].addedFlats = Pull(@, flatId)]
  /\ flats' = Without(flats, flatId)

\* FlatController.deleteFlat steps 4-8
DeleteFlatCascade(caller, flatId) ==
  /\ cloud' = cloud \ {flats[flatId].image}
  /\ messages' = [m \in {x \in DOMAIN messages : messages[x].flatId # flatId}
                    |-> messages[m]]
  /\ users' = [u \in DOMAIN users |->
                 [users[u] EXCEPT
                    !.favoriteFlats = Pull(@, flatId),
                    !.addedFlats = IF u = caller THEN Pull(@, flatId) ELSE @]]
  /\ flats' = Without(flats, flatId)

deleteFlat(caller, flatId) ==
  /\ IF ~ObjectIdIsValid(flatId)
       THEN /\ resp' = Resp("deleteFlat", 400, caller, flatId)
            /\ UNCHANGED store
     ELSE IF ~Exists(flats, flatId)
       THEN /\ resp' = Resp("deleteFlat", 404, caller, flatId)
            /\ UNCHANGED store
     ELSE IF ~IsOwner(flats[flatId], caller)
       THEN /\ resp' = Resp("deleteFlat", 403, caller, flatId)
            /\ UNCHANGED store
     ELSE /\ DeleteFlatCascade(caller, flatId)
          /\ resp' = Resp("deleteFlat", 200, caller, flatId)
  /\ UNCHANGED <<nextUser, nextFlat, nextMsg, nextImg, now, today, auth, session, races>>

addToFavorites(caller, flatId) ==
  /\ IF ~ObjectIdIsValid(flatId)
       THEN /\ resp' = Resp("addToFavorites", 400, caller, flatId)
            /\ UNCHANGED users
     ELSE IF ~Exists(flats, flatId) \/ ~Exists(users, caller)
       THEN /\ resp' = Resp("addToFavorites", 404, caller, flatId)
            /\ UNCHANGED users
     ELSE IF Includes(users[caller].favoriteFlats, flatId)
       THEN /\ resp' = Resp("addToFavorites", 400, caller, flatId)
            /\ UNCHANGED users
     ELSE /\ users' = [users EXCEPT ![caller].favoriteFlats = Append(@, flatId)]
          /\ resp' = Resp("addToFavorites", 200, caller, flatId)
  /\ UNCHANGED <<flats, messages, cloud, nextUser, nextFlat, nextMsg, nextImg,
                 now, today, auth, session, races>>

removeFromFavorites(caller, flatId) ==
  /\ IF ~ObjectIdIsValid(flatId)
       THEN /\ resp' = Resp("removeFromFavorites", 400, caller, flatId)
            /\ UNCHANGED users
     ELSE IF ~Exists(users, caller)
       THEN /\ resp' = Resp("removeFromFavorites", 404, caller, flatId)
            /\ UNCHANGED users
     ELSE LET index == IndexOf(users[caller].favoriteFlats, flatId) IN
          IF index = 0
            THEN /\ resp' = Resp("removeFromFavorites", 400, caller, flatId)
                 /\ UNCHANGED users
          ELSE /\ users' = [users EXCEPT ![caller].favoriteFlats = Splice1(@, index)]
               /\ resp' = Resp("removeFromFavorites", 200, caller, flatId)
  /\ UNCHANGED <<flats, messages, cloud, nextUser, nextFlat, nextMsg, nextImg,
                 now, today, auth, session, races>>

(* -------------------------- MessageController -------------------------- *)
\* Message.find({ flatId [, senderId] }).sort({ createdAt: 1 }): message ids
\* in ascending creation order (ids are allocated in creation order)
RECURSIVE SortedIds(_)
SortedIds(S) ==
  IF S = {} THEN <<>>
  ELSE LET m == CHOOSE x \in S : \A y \in S : x <= y
       IN <<m>> \o SortedIds(S \ {m})

\* every caller is shown every message of the listing
MessagesForAnyone(flatId, userId, isOwner) ==
  SortedIds({m \in DOMAIN messages : messages[m].flatId = flatId})

MessagesFor(flatId, userId, isOwner) ==
  SortedIds({m \in DOMAIN messages :
               /\ messages[m].flatId = flatId
               /\ (isOwner \/ messages[m].senderId = userId)})

addMessage(caller, flatId, contentOk) ==
  /\ nextMsg <= MaxMsgs
  /\ IF ~ObjectIdIsValid(flatId)
       \* Flat.findById throws a CastError, caught by the generic handler
       THEN /\ resp' = Resp("addMessage", 500, caller, flatId)
            /\ UNCHANGED <<flats, messages, nextMsg>>
     ELSE IF ~Exists(flats, flatId)
       THEN /\ resp' = Resp("addMessage", 404, caller, flatId)
            /\ UNCHANGED <<flats, messages, nextMsg>>
     ELSE IF IsOwner(flats[flatId], caller)
       THEN /\ resp' = Resp("addMessage", 403, caller, flatId)
            /\ UNCHANGED <<flats, messages, nextMsg>>
     ELSE IF ~contentOk
       \* Message.create rejects the content; the ValidationError is caught
       THEN /\ resp' = Resp("addMessage", 500, caller, flatId)
            /\ UNCHANGED <<flats, messages, nextMsg>>
     ELSE /\ messages' = With(messages, nextMsg, NewMessage(flatId, caller, now))
          /\ flats' = [flats EXCEPT ![flatId].messages = Append(@, nextMsg)]
          /\ nextMsg' = nextMsg + 1
          /\ resp' = Resp("addMessage", 201, caller, flatId)
  /\ UNCHANGED <<users, cloud, nextUser, nextFlat, nextImg, now, today, auth, session, races>>

getAllMessages(caller, flatId) ==
  /\ resp' = IF ~ObjectIdIsValid(flatId) THEN Resp("getAllMessages", 500, caller, flatId)
             ELSE IF ~Exists(flats, flatId) THEN Resp("getAllMessages", 404, caller, flatId)
             ELSE [Resp("getAllMessages", 200, caller, flatId) EXCEPT
                     !.data = MessagesFor(flatId, caller, IsOwner(flats[flatId], caller))]
  /\ UNCHANGED <<users, flats, messages, cloud, nextUser, nextFlat, nextMsg,
                 nextImg, now, today, auth, session, races>>

(* ------------------------------ UserModel ------------------------------ *)
MaxReset == 2
MaxEmail == 3
MaxPassword == 2
\* request values: 0 stands for a value the schema validators reject
\* (malformed email, weak password)
EmailInputs == 0..MaxEmail
PasswordInputs == 0..MaxPassword
BirthInputs == {Date(2000, 1, 1), Date(2010, 1, 1)}

\* birthDate validator: years between dob and today, one less when the
\* birthday has not occurred yet this year
ValidatorAge(dob, t) ==
  LET age == t.y - dob.y
      monthDiff == t.m - dob.m
  IN IF monthDiff < 0 \/ (monthDiff = 0 /\ t.d < dob.d) THEN age - 1 ELSE age

BirthDateValid(dob, t) == ValidatorAge(dob, t) >= 18 /\ ValidatorAge(dob, t) <= 120

\* schema validation run by save(): email format, password strength,
\* birthDate (only when new or modified), role enum
UserValid(u, birthDateModified) ==
  /\ u.email >= 1
  /\ u.password >= 1
  /\ u.role \in Roles
  /\ birthDateModified => BirthDateValid(u.birthDate, today)

\* a store without the unique index
EmailNeverTaken(email, except) == FALSE

\* unique index on email
EmailTaken(email, except) ==
  \E x \in DOMAIN users : x # except /\ users[x].email = email

\* userSchema.methods.isPasswordChanged: both sides in whole seconds
isPasswordChanged(user, jwtTimeStamp) ==
  IF user.passwordChangedAt # NoDate
    THEN jwtTimeStamp < (user.passwordChangedAt \div 1000)
    ELSE FALSE

\* crypto.createHash('sha256'): an injective map away from the raw tokens
HashOffset == 100
Sha256(token) == token + HashOffset

\* bcrypt.hash / bcrypt.compare: the stored value differs from the password
BcryptOffset == 200
BcryptHash(password) == password + BcryptOffset
BcryptCompare(bodyPass, stored) == BcryptHash(bodyPass) = stored

\* pre('save'): the password is hashed when it was modified
PreSave(u, passwordModified) ==
  IF passwordModified THEN [u EXCEPT !.password = BcryptHash(@)] ELSE u

\* a lifetime of 20 minutes
ResetTokenLifetimeDoubled == 20 * 60 * 1000

\* a new document that keeps the role of the request body
PreSaveNewKeepsRole(u) == PreSave(u, TRUE)

\* pre('save') on a new document: the password is hashed and the role is 'user'
PreSaveNew(u) == [PreSave(u, TRUE) EXCEPT !.role = "user"]

\* createNewPasswordToken: 10 minutes
ResetTokenLifetime == 10 * 60 * 1000

(* ------------------------------ authUtils ------------------------------ *)
\* jwt.sign({ id }): iat is the issue time in whole seconds.  The fields
\* "old" and "replaced" are history marks (not part of the token): "old" is
\* set when the user's password changes after the token was issued,
\* "replaced" when updateProfile changes the user's email after it.
createToken(userId) ==
  [id |-> userId, iat |-> now \div 1000, old |-> FALSE, replaced |-> FALSE]

\* history: every token of userId issued so far predates a password change
MarkOld(userId) ==
  {IF t.id = userId THEN [t EXCEPT !.old = TRUE] ELSE t : t \in tokens}

\* history: every token of userId issued so far predates an email change
MarkReplaced(userId) ==
  {IF t.id = userId THEN [t EXCEPT !.replaced = TRUE] ELSE t : t \in tokens}

(* --------------------------- AuthController ---------------------------- *)
\* a response with its message, to a request with the given body
Answer(op, status, caller, target, message, body) ==
  [Resp(op, status, caller, target) EXCEPT !.data = <<message>>, !.query = <<body>>]

register(email, password, birthDate, role) ==
  /\ nextUser <= MaxUsers
  /\ LET candidate == [NewUser(email, password, birthDate, now) EXCEPT !.role = role]
         \* pre('save'): a new document always gets role 'user'
         saved == PreSaveNew(candidate)
         body == [key |-> "email", value |-> email, password |-> password, role |-> role]
     IN IF ~UserValid(candidate, TRUE)
          THEN /\ resp' = Answer("register", 400, NoId, NoId, "Validation error", body)
               /\ UNCHANGED <<users, nextUser>>
        ELSE IF EmailTaken(email, NoId)
          THEN /\ resp' = Answer("register", 400, NoId, NoId, "Email already exists", body)
               /\ UNCHANGED <<users, nextUser>>
        ELSE /\ users' = With(users, nextUser, saved)
             /\ nextUser' = nextUser + 1
             /\ resp' = Answer("register", 200, NoId, nextUser, "created successfully", body)
  /\ UNCHANGED <<flats, messages, cloud, nextFlat, nextMsg, nextImg, now, today,
                 auth, session, races>>

login(email, password) ==
  /\ IF \E u \in DOMAIN users : /\ users[u].email = email
                              /\ BcryptCompare(password, users[u].password)
       THEN LET u == CHOOSE x \in DOMAIN users : users[x].email = email
            IN /\ Cardinality(tokens \cup {createToken(u)}) <= MaxTokens
               /\ tokens' = tokens \cup {createToken(u)}
               /\ resp' = Resp("login", 200, u, NoId)
       ELSE /\ resp' = Resp("login", 401, NoId, NoId)
            /\ UNCHANGED tokens
  /\ UNCHANGED <<users, flats, messages, cloud, nextUser, nextFlat, nextMsg,
                 nextImg, now, today, nextReset, resetLog, session, races>>

\* protect, steps 3-4: the status it answers, 200 standing for next()
ProtectStatus(tok) ==
  IF ~Exists(users, tok.id) THEN 401
  ELSE IF isPasswordChanged(users[tok.id], tok.iat) THEN 401
  ELSE 200

protect(tok) ==
  /\ resp' = [Resp("protect", ProtectStatus(tok), tok.id, tok.iat) EXCEPT !.data = <<tok>>]
  /\ UNCHANGED <<users, flats, messages, cloud, nextUser, nextFlat, nextMsg,
                 nextImg, now, today, auth, session, races>>

\* a guard that lets every stored user through
IsAnyUser(caller) == Exists(users, caller)

\* restrictIfNotAdmin
IsAdmin(caller) == Exists(users, caller) /\ users[caller].role = "admin"

\* a failed email that leaves the token in place
KeepResetToken(user) == user

\* forgotPassword, when the email fails: both reset fields are unset
ClearResetToken(user) ==
  [user EXCEPT !.passwordResetToken = NoId, !.passwordResetTokenExpires = NoDate]

\* history: the reset tokens createNewPasswordToken has produced, with the
\* account, the time, whether the email went out, and whether a reset used it
IssuedToken(token, user, sent) ==
  [token |-> token, user |-> user, at |-> now, sent |-> sent, used |-> FALSE]

MarkUsed(token) ==
  {IF r.token = token THEN [r EXCEPT !.used = TRUE] ELSE r : r \in resetLog}

forgotPassword(email, mailOk) ==
  /\ nextReset <= MaxReset
  /\ IF email = 0
       THEN /\ resp' = Resp("forgotPassword", 400, NoId, NoId)
            /\ UNCHANGED <<users, nextReset, resetLog>>
     ELSE IF ~EmailTaken(email, NoId)
       THEN /\ resp' = Resp("forgotPassword", 200, NoId, NoId)
            /\ UNCHANGED <<users, nextReset, resetLog>>
     ELSE LET u == CHOOSE x \in DOMAIN users : users[x].email = email IN
          /\ nextReset' = nextReset + 1
          /\ resetLog' = resetLog \cup {IssuedToken(nextReset, u, mailOk)}
          /\ LET withToken == [users[u] EXCEPT
                                  !.passwordResetToken = Sha256(nextReset),
                                  !.passwordResetTokenExpires = now + ResetTokenLifetime]
             IN IF mailOk
                  THEN /\ users' = [users EXCEPT ![u] = withToken]
                       /\ resp' = Resp("forgotPassword", 200, NoId, u)
                  ELSE /\ users' = [users EXCEPT ![u] = ClearResetToken(withToken)]
                       /\ resp' = Resp("forgotPassword", 500, NoId, u)
  /\ UNCHANGED <<flats, messages, cloud, nextUser, nextFlat, nextMsg, nextImg,
                 now, today, tokens, session, races>>

resetPassword(token, password) ==
  /\ LET hashedToken == Sha256(token)
         found == {u \in DOMAIN users :
                     /\ users[u].passwordResetToken = hashedToken
                     /\ users[u].passwordResetTokenExpires > now}
     IN IF found = {}
          THEN /\ resp' = Resp("resetPassword", 404, NoId, token)
               /\ UNCHANGED <<users, tokens, resetLog>>
        ELSE LET u == CHOOSE x \in found : TRUE
                 userData == [users[u] EXCEPT
                                !.password = password,
                                !.passwordResetToken = NoId,
                                !.passwordResetTokenExpires = NoDate,
                                !.passwordChangedAt = now]
             IN IF ~UserValid(userData, FALSE)
                  THEN /\ resp' = Resp("resetPassword", 500, NoId, token)
                       /\ UNCHANGED <<users, tokens, resetLog>>
                ELSE /\ users' = [users EXCEPT ![u] = PreSave(userData, TRUE)]
                     /\ tokens' = MarkOld(u)
                     /\ resetLog' = MarkUsed(token)
                     /\ resp' = Resp("resetPassword", 200, u, token)
  /\ UNCHANGED <<flats, messages, cloud, nextUser, nextFlat, nextMsg, nextImg,
                 now, today, nextReset, session, races>>

\* request bodies of PATCH /users/updateMyProfile and /users/editProfile/:id
UserBodies ==
  {[key |-> "none", value |-> 0]}
  \cup {[key |-> "newPassword", value |-> p] : p \in PasswordInputs}
  \cup {[key |-> "password", value |-> p] : p \in PasswordInputs}
  \cup {[key |-> "email", value |-> e] : e \in EmailInputs}
  \cup {[key |-> "role", value |-> r] : r \in Roles}

updateProfile(caller, body) ==
  /\ IF ~Exists(users, caller)
       THEN /\ resp' = Resp("updateProfile", 404, caller, NoId)
            /\ UNCHANGED <<users, tokens>>
     ELSE IF body.key \notin {"none", "newPassword", "email"}
       THEN /\ resp' = Answer("updateProfile", 400, caller, NoId, "Invalid field", body)
            /\ UNCHANGED <<users, tokens>>
     ELSE LET shouldUpdatePassword == body.key = "newPassword"
              shouldUpdateToken == body.key = "email" /\ body.value # users[caller].email
              user == IF shouldUpdatePassword
                        THEN [users[caller] EXCEPT !.password = body.value,
                                                   !.passwordChangedAt = now]
                      ELSE IF shouldUpdateToken
                        THEN [users[caller] EXCEPT !.email = body.value]
                      ELSE users[caller]
              before == IF shouldUpdatePassword THEN MarkOld(caller)
                        ELSE IF shouldUpdateToken THEN MarkReplaced(caller)
                        ELSE tokens
              issued == IF shouldUpdatePassword \/ shouldUpdateToken
                          THEN before \cup {createToken(caller)} ELSE before
          IN IF ~UserValid(user, FALSE)
               THEN /\ resp' = Answer("updateProfile", 400, caller, NoId,
                                      "Validation error", body)
                    /\ UNCHANGED <<users, tokens>>
             ELSE IF EmailTaken(user.email, caller)
               THEN /\ resp' = Answer("updateProfile", 400, caller, NoId,
                                      "Email already in use", body)
                    /\ UNCHANGED <<users, tokens>>
             ELSE /\ Cardinality(issued) <= MaxTokens
                  /\ users' = [users EXCEPT ![caller] = PreSave(user, shouldUpdatePassword)]
                  /\ tokens' = issued
                  /\ resp' = Answer("updateProfile", 200, caller, NoId,
                                    "User updated successfully", body)
  /\ UNCHANGED <<flats, messages, cloud, nextUser, nextFlat, nextMsg, nextImg,
                 now, today, nextReset, resetLog, session, races>>

\* the cascade without the per-flat Message.deleteMany({ flatId })
DeleteUserKeepFlatMessages(userId) ==
  LET owned == FlatsOwnedBy(userId) IN
  /\ messages' = [m \in {x \in DOMAIN messages : messages[x].senderId # userId}
                    |-> messages[m]]
  /\ cloud' = cloud \ {flats[f].image : f \in owned}
  /\ users' = [u \in (DOMAIN users) \ {userId} |->
                 [users[u] EXCEPT
                    !.favoriteFlats = SelectSeq(@, LAMBDA f : f \notin owned)]]
  /\ flats' = [f \in (DOMAIN flats) \ owned |-> flats[f]]

\* deleteProfile steps 1-7 and deleteUserById steps 2-8
DeleteUserCascade(userId) ==
  LET owned == FlatsOwnedBy(userId) IN
  /\ messages' = [m \in {x \in DOMAIN messages :
                           /\ messages[x].senderId # userId
                           /\ messages[x].flatId \notin owned}
                    |-> messages[m]]
  /\ cloud' = cloud \ {flats[f].image : f \in owned}
  /\ users' = [u \in (DOMAIN users) \ {userId} |->
                 [users[u] EXCEPT
                    !.favoriteFlats = SelectSeq(@, LAMBDA f : f \notin owned)]]
  /\ flats' = [f \in (DOMAIN flats) \ owned |-> flats[f]]

deleteProfile(caller) ==
  /\ DeleteUserCascade(caller)
  /\ resp' = IF Exists(users, caller) THEN Resp("deleteProfile", 200, caller, caller)
             ELSE Resp("deleteProfile", 404, caller, caller)
  /\ UNCHANGED <<nextUser, nextFlat, nextMsg, nextImg, now, today, auth, session, races>>

(* --------------------------- AdminController --------------------------- *)
\* editUserById step 3-4: Object.assign(user, req.body), then newPassword
ApplyUserBody(user, body) ==
  IF body.key = "newPassword"
    THEN [user EXCEPT !.password = body.value, !.passwordChangedAt = now]
  ELSE IF body.key = "password" THEN [user EXCEPT !.password = body.value]
  ELSE IF body.key = "email" THEN [user EXCEPT !.email = body.value]
  ELSE IF body.key = "role" THEN [user EXCEPT !.role = body.value]
  ELSE user

editUserById(caller, userId, body) ==
  /\ IF ~IsAdmin(caller)
       THEN /\ resp' = Resp("editUserById", 403, caller, userId)
            /\ UNCHANGED <<users, tokens>>
     ELSE IF ~ObjectIdIsValid(userId)
       \* User.findById throws a CastError, caught by the generic handler
       THEN /\ resp' = Resp("editUserById", 500, caller, userId)
            /\ UNCHANGED <<users, tokens>>
     ELSE IF ~Exists(users, userId)
       THEN /\ resp' = Resp("editUserById", 404, caller, userId)
            /\ UNCHANGED <<users, tokens>>
     ELSE LET user == ApplyUserBody(users[userId], body)
              passwordModified == body.key \in {"newPassword", "password"}
          IN IF ~UserValid(user, FALSE) \/ EmailTaken(user.email, userId)
               THEN /\ resp' = Resp("editUserById", 500, caller, userId)
                    /\ UNCHANGED <<users, tokens>>
             ELSE /\ users' = [users EXCEPT ![userId] = PreSave(user, passwordModified)]
                  /\ tokens' = IF passwordModified THEN MarkOld(userId) ELSE tokens
                  /\ resp' = Resp("editUserById", 200, caller, userId)
  /\ UNCHANGED <<flats, messages, cloud, nextUser, nextFlat, nextMsg, nextImg,
                 now, today, nextReset, resetLog, session, races>>

RoleInputs == Roles \cup {"owner"}

updateRole(caller, userId, newRole) ==
  /\ IF ~IsAdmin(caller)
       THEN /\ resp' = Resp("updateRole", 403, caller, userId)
            /\ UNCHANGED users
     ELSE IF newRole \notin Roles
       THEN /\ resp' = Resp("updateRole", 400, caller, userId)
            /\ UNCHANGED users
     ELSE IF ~ObjectIdIsValid(userId)
       THEN /\ resp' = Resp("updateRole", 500, caller, userId)
            /\ UNCHANGED users
     ELSE IF ~Exists(users, userId)
       THEN /\ resp' = Resp("updateRole", 404, caller, userId)
            /\ UNCHANGED users
     ELSE /\ users' = [users EXCEPT ![userId].role = newRole]
          /\ resp' = Resp("updateRole", 200, caller, userId)
  /\ UNCHANGED <<flats, messages, cloud, nextUser, nextFlat, nextMsg, nextImg,
                 now, today, auth, session, races>>

deleteUserById(caller, userId) ==
  /\ IF ~IsAdmin(caller)
       THEN /\ resp' = Resp("deleteUserById", 403, caller, userId)
            /\ UNCHANGED store
     ELSE IF ~ObjectIdIsValid(userId)
       THEN /\ resp' = Resp("deleteUserById", 500, caller, userId)
            /\ UNCHANGED store
     ELSE IF ~Exists(users, userId)
       THEN /\ resp' = Resp("deleteUserById", 404, caller, userId)
            /\ UNCHANGED store
     ELSE /\ DeleteUserCascade(userId)
          /\ resp' = Resp("deleteUserById", 200, caller, userId)
  /\ UNCHANGED <<nextUser, nextFlat, nextMsg, nextImg, now, today, auth, session, races>>

getUserById(caller, userId) ==
  /\ resp' = IF ~IsAdmin(caller) THEN Resp("getUserById", 403, caller, userId)
             ELSE IF ~ObjectIdIsValid(userId) THEN Resp("getUserById", 500, caller, userId)
             ELSE IF ~Exists(users, userId) THEN Resp("getUserById", 404, caller, userId)
             ELSE Resp("getUserById", 200, caller, userId)
  /\ UNCHANGED <<users, flats, messages, cloud, nextUser, nextFlat, nextMsg,
                 nextImg, now, today, auth, session, races>>

(* ---------------------------- query strings ---------------------------- *)
\* A query-string value is a sequence of atoms: the separators "-", ","
\* and " ", decimal digits, and words (runs of letters).
Digits == {"0", "1", "2", "3", "4", "5", "6", "7", "8", "9"}
DigitVal(a) ==
  CASE a = "0" -> 0 [] a = "1" -> 1 [] a = "2" -> 2 [] a = "3" -> 3 [] a = "4" -> 4
    [] a = "5" -> 5 [] a = "6" -> 6 [] a = "7" -> 7 [] a = "8" -> 8 [] a = "9" -> 9

\* String.prototype.toLowerCase on a word (the 'i' option of $regex)
Lower(a) ==
  CASE a = "Alba" -> "alba"
    [] a = "Iulia" -> "iulia"
    [] a = "Cluj" -> "cluj"
    [] OTHER -> a

RECURSIVE SplitFrom(_, _, _, _)
SplitFrom(s, sep, i, cur) ==
  IF i > Len(s) THEN <<cur>>
  ELSE IF s[i] = sep THEN <<cur>> \o SplitFrom(s, sep, i + 1, <<>>)
  ELSE SplitFrom(s, sep, i + 1, Append(cur, s[i]))

\* String.prototype.split(sep)
Split(s, sep) == SplitFrom(s, sep, 1, <<>>)

\* String.prototype.trim
RECURSIVE Trim(_)
Trim(s) ==
  IF s = <<>> THEN s
  ELSE IF Head(s) = " " THEN Trim(Tail(s))
  ELSE IF s[Len(s)] = " " THEN Trim(SubSeq(s, 1, Len(s) - 1))
  ELSE s

RECURSIVE Decimal(_, _)
Decimal(s, acc) ==
  IF s = <<>> THEN acc ELSE Decimal(Tail(s), 10 * acc + DigitVal(Head(s)))

AllDigits(s) == s # <<>> /\ \A i \in 1..Len(s) : s[i] \in Digits

\* typed values: numbers, NaN, strings, booleans, a missing field
Num(n) == [t |-> "num", n |-> n, s |-> <<>>]
NaN == [t |-> "nan", n |-> 0, s |-> <<>>]
Str(s) == [t |-> "str", n |-> 0, s |-> s]
Bool(b) == [t |-> "bool", n |-> IF b THEN 1 ELSE 0, s |-> <<>>]
Missing == [t |-> "missing", n |-> 0, s |-> <<>>]

\* Number(string) with the blank string read as NaN
NumberBlankIsNaN(str) ==
  LET s == Trim(str) IN
  IF AllDigits(s) THEN Num(Decimal(s, 0))
  ELSE IF s # <<>> /\ Head(s) = "-" /\ AllDigits(Tail(s)) THEN Num(0 - Decimal(Tail(s), 0))
  ELSE NaN

\* Number(string): blank is 0, an optionally signed digit string is its
\* value, anything else is NaN
Number(str) ==
  LET s == Trim(str) IN
  IF s = <<>> THEN Num(0)
  ELSE IF AllDigits(s) THEN Num(Decimal(s, 0))
  ELSE IF Head(s) = "-" /\ AllDigits(Tail(s)) THEN Num(0 - Decimal(Tail(s), 0))
  ELSE NaN

\* isNaN(string)
isNaN(str) == Number(str).t = "nan"

(* ---------------------------- filter terms ----------------------------- *)
\* the range with its lower bound one too high
RangeTermOffByOne(value) ==
  LET parts == Split(value, "-")
      lo == Number(parts[1])
  IN [kind |-> "range",
      gte |-> IF lo.t = "num" THEN Num(lo.n + 1) ELSE lo,
      lte |-> Number(parts[2]), list |-> <<>>, eq |-> Missing, pattern |-> <<>>]

\* getAllFlats: const [min, max] = value.split('-'); { $gte, $lte }
RangeTerm(value) ==
  LET parts == Split(value, "-")
  IN [kind |-> "range", gte |-> Number(parts[1]), lte |-> Number(parts[2]),
      list |-> <<>>, eq |-> Missing, pattern |-> <<>>]

\* getAllFlats: { $in: value.split(',').map(v => isNaN(v) ? v : Number(v)) }
InTerm(value) ==
  LET parts == Split(value, ",")
  IN [kind |-> "in", gte |-> Missing, lte |-> Missing,
      list |-> [i \in 1..Len(parts) |->
                  IF isNaN(parts[i]) THEN Str(parts[i]) ELSE Number(parts[i])],
      eq |-> Missing, pattern |-> <<>>]

OptSep == "[-\\s]?"

\* value.replace(/[-\s]+/g, '[-\\s]?'): every run of hyphens and blanks
\* becomes one optional separator
RECURSIVE CityRegex(_)
CityRegex(value) ==
  IF value = <<>> THEN <<>>
  ELSE IF Head(value) \in {"-", " "}
    THEN IF Len(value) > 1 /\ value[2] \in {"-", " "}
           THEN CityRegex(Tail(value))
           ELSE <<OptSep>> \o CityRegex(Tail(value))
  ELSE <<Head(value)>> \o CityRegex(Tail(value))

RegexTerm(pattern) ==
  [kind |-> "regex", gte |-> Missing, lte |-> Missing, list |-> <<>>,
   eq |-> Missing, pattern |-> pattern]

EqTerm(v) ==
  [kind |-> "eq", gte |-> Missing, lte |-> Missing, list |-> <<>>,
   eq |-> v, pattern |-> <<>>]

\* the predicate with the range branch tried before the list branch
FilterTermRangeFirst(key, value) ==
  IF Includes(value, "-") THEN RangeTerm(value)
  ELSE IF Includes(value, ",") THEN InTerm(value)
  ELSE IF key = "city" THEN RegexTerm(CityRegex(value))
  ELSE IF key \in {"title", "address"} THEN RegexTerm(value)
  ELSE IF value = <<"true">> \/ value = <<"false">> THEN EqTerm(Bool(value = <<"true">>))
  ELSE EqTerm(IF isNaN(value) THEN Str(value) ELSE Number(value))

\* getAllFlats step 1: one predicate per query parameter
FilterTerm(key, value) ==
  IF Includes(value, ",") THEN InTerm(value)
  ELSE IF Includes(value, "-") THEN RangeTerm(value)
  ELSE IF key = "city" THEN RegexTerm(CityRegex(value))
  ELSE IF key \in {"title", "address"} THEN RegexTerm(value)
  ELSE IF value = <<"true">> \/ value = <<"false">> THEN EqTerm(Bool(value = <<"true">>))
  ELSE EqTerm(IF isNaN(value) THEN Str(value) ELSE Number(value))

(* ------------------------- store-side matching ------------------------- *)
\* the value a listing holds under a field name
FlatField(flat, key) ==
  IF key = "rentPrice" THEN Num(flat.rentPrice)
  ELSE IF key = "city" THEN Str(flat.city)
  ELSE IF key = "createdAt" THEN Num(flat.createdAt)
  ELSE Missing

\* $regex with $options 'i': the pattern occurs somewhere in the string
RECURSIVE RegexMatchAt(_, _, _)
RegexMatchAt(pattern, str, i) ==
  IF pattern = <<>> THEN TRUE
  ELSE IF Head(pattern) = OptSep
    THEN \/ RegexMatchAt(Tail(pattern), str, i)
         \/ i <= Len(str) /\ str[i] \in {"-", " "} /\ RegexMatchAt(Tail(pattern), str, i + 1)
  ELSE /\ i <= Len(str)
       /\ Lower(str[i]) = Lower(Head(pattern))
       /\ RegexMatchAt(Tail(pattern), str, i + 1)

RegexSearch(pattern, str) == \E i \in 1..(Len(str) + 1) : RegexMatchAt(pattern, str, i)

\* $match of one term against one field value (comparisons are typed: a
\* number never matches a string bound, NaN bounds match no number)
Matches(term, fv) ==
  CASE term.kind = "in" -> \E i \in 1..Len(term.list) : term.list[i] = fv
    [] term.kind = "range" ->
         /\ fv.t = "num" /\ term.gte.t = "num" /\ term.lte.t = "num"
         /\ term.gte.n <= fv.n /\ fv.n <= term.lte.n
    [] term.kind = "regex" -> fv.t = "str" /\ RegexSearch(term.pattern, fv.s)
    [] OTHER -> term.eq = fv

(* ------------------------------- sorting ------------------------------- *)
\* String.prototype.replace('-', ''): the first hyphen is removed
RECURSIVE RemoveFirst(_, _)
RemoveFirst(s, a) ==
  IF s = <<>> THEN s
  ELSE IF Head(s) = a THEN Tail(s)
  ELSE <<Head(s)>> \o RemoveFirst(Tail(s), a)

\* one entry of sortObj with the direction ignored
SortEntryAscending(field) == [name |-> RemoveFirst(field, "-"), dir |-> 1]

\* one entry of sortObj
SortEntry(field) ==
  [name |-> RemoveFirst(field, "-"),
   dir |-> IF field # <<>> /\ Head(field) = "-" THEN -1 ELSE 1]

\* sortObj[fieldName] = order: a repeated name keeps its first position
\* and takes the last direction
RECURSIVE PutEntry(_, _)
PutEntry(obj, e) ==
  IF obj = <<>> THEN <<e>>
  ELSE IF Head(obj).name = e.name THEN <<e>> \o Tail(obj)
  ELSE <<Head(obj)>> \o PutEntry(Tail(obj), e)

RECURSIVE SortObjFrom(_, _, _)
SortObjFrom(fields, i, obj) ==
  IF i > Len(fields) THEN obj
  ELSE SortObjFrom(fields, i + 1, PutEntry(obj, SortEntry(fields[i])))

\* getAllFlats step 3 / getAllUsers sort stage
SortObj(sort) ==
  IF sort = <<>> THEN <<[name |-> <<"createdAt">>, dir |-> -1]>>
  ELSE SortObjFrom(Split(sort, ","), 1, <<>>)

\* position of a string in the store's (binary) string order
StrRank(str) ==
  CASE str = <<"Alba", "-", "Iulia">> -> 1
    [] str = <<"Cluj">> -> 2
    [] str = <<"admin">> -> 3
    [] str = <<"user">> -> 4
    [] OTHER -> 0

\* sort rank of a field value: missing first, then numbers, then strings
KeyRank(fv) ==
  CASE fv.t = "num" -> fv.n
    [] fv.t = "str" -> StrRank(fv.s)
    [] OTHER -> 0

FlatSortField(f, name) ==
  IF Len(name) = 1 THEN FlatField(flats[f], name[1]) ELSE Missing

\* the $addFields age expression, evaluated at $$NOW
PipelineAge(birthDate, t) ==
  (t.y - birthDate.y)
    - (IF t.m < birthDate.m \/ (t.m = birthDate.m /\ t.d < birthDate.d) THEN 1 ELSE 0)

PublishedFlatsCount(u) == Len(users[u].addedFlats)

UserField(u, key) ==
  IF key = "createdAt" THEN Num(users[u].createdAt)
  ELSE IF key = "age" THEN Num(PipelineAge(users[u].birthDate, today))
  ELSE IF key = "publishedFlatsCount" THEN Num(PublishedFlatsCount(u))
  ELSE IF key = "role" THEN Str(<<users[u].role>>)
  ELSE IF key = "email" THEN Num(users[u].email)
  ELSE Missing

UserSortField(u, name) ==
  IF Len(name) = 1 THEN UserField(u, name[1]) ELSE Missing

\* the sort key of a document of collection coll
SortField(coll, x, name) ==
  IF coll = "flats" THEN FlatSortField(x, name) ELSE UserSortField(x, name)

\* a sorts strictly before b under sortObj
RECURSIVE Before(_, _, _, _)
Before(a, b, obj, coll) ==
  IF obj = <<>> THEN FALSE
  ELSE LET ka == KeyRank(SortField(coll, a, Head(obj).name))
           kb == KeyRank(SortField(coll, b, Head(obj).name))
       IN IF ka = kb THEN Before(a, b, Tail(obj), coll)
          ELSE IF Head(obj).dir = 1 THEN ka < kb ELSE ka > kb

\* every arrangement of the set S
Arrangements(S) ==
  {p \in [1..Cardinality(S) -> S] : \A i, j \in DOMAIN p : i # j => p[i] # p[j]}

\* $sort: the store returns the documents ordered by sortObj; the order of
\* documents that tie on every sort key is not specified by the store and
\* may differ from one execution to the next
SortedOrders(S, obj, coll) ==
  {p \in Arrangements(S) :
     \A i, j \in DOMAIN p : i < j => ~Before(p[j], p[i], obj, coll)}

(* ------------------------------ pagination ----------------------------- *)
DefaultLimit == 100000
DefaultPage == 1

\* an optional numeric parameter: <<>> when absent
ParamOr(p, default) == IF p = <<>> THEN default ELSE p[1]

\* a skip clamped at zero
SkipClamped(page, limit) ==
  IF ParamOr(page, DefaultPage) < 1 THEN 0
  ELSE (ParamOr(page, DefaultPage) - 1) * ParamOr(limit, DefaultLimit)

\* (Number(page) - 1) * Number(limit)
Skip(page, limit) == (ParamOr(page, DefaultPage) - 1) * ParamOr(limit, DefaultLimit)

Min(a, b) == IF a < b THEN a ELSE b

\* a window one record short
WindowOneShort(order, skip, limit) ==
  SubSeq(order, skip + 1, Min(skip + limit - 1, Len(order)))

\* $skip then $limit on an ordered result
Window(order, skip, limit) == SubSeq(order, skip + 1, Min(skip + limit, Len(order)))

\* the store refuses a negative $skip and a non-positive $limit
WindowError(skip, limit) == skip < 0 \/ limit <= 0

(* ----------------------------- getAllFlats ------------------------------ *)
\* $match: every filter term holds
FlatsMatching(filters) ==
  {f \in DOMAIN flats :
     \A i \in 1..Len(filters) :
       Matches(FilterTerm(filters[i].key, filters[i].value),
               FlatField(flats[f], filters[i].key))}

\* $lookup + $unwind: a listing whose owner record is missing is dropped
FlatsJoined(filters) ==
  {f \in FlatsMatching(filters) : Exists(users, flats[f].owner)}

\* Flat.countDocuments(filter) casts the filter to the schema first: a
\* value that is not a number under a Number path raises a CastError
NumberCastFails(v) == v.t \in {"nan", "str"}

CountCastError(filters) ==
  \E i \in 1..Len(filters) :
    /\ filters[i].key = "rentPrice"
    /\ LET term == FilterTerm(filters[i].key, filters[i].value) IN
         CASE term.kind = "in" -> \E j \in 1..Len(term.list) : NumberCastFails(term.list[j])
           [] term.kind = "range" -> NumberCastFails(term.gte) \/ NumberCastFails(term.lte)
           [] term.kind = "regex" -> FALSE
           [] OTHER -> NumberCastFails(term.eq)

QueryResp(op, status, caller, q, data, totalCount) ==
  [op |-> op, status |-> status, caller |-> caller, target |-> NoId,
   data |-> data, totalCount |-> totalCount, query |-> <<q>>]

getAllFlats(q) ==
  LET skip == Skip(q.page, q.limit)
      limit == ParamOr(q.limit, DefaultLimit)
      sortObj == SortObj(q.sort)
  IN /\ IF WindowError(skip, limit) \/ CountCastError(q.filters)
            \/ \E i \in 1..Len(sortObj) : sortObj[i].name = <<>>
          THEN resp' = QueryResp("getAllFlats", 500, NoId, q, <<>>, 0)
        ELSE \E order \in SortedOrders(FlatsJoined(q.filters), sortObj, "flats") :
               resp' = QueryResp("getAllFlats", 200, NoId, q,
                                 Window(order, skip, limit),
                                 Cardinality(FlatsMatching(q.filters)))
     /\ UNCHANGED <<users, flats, messages, cloud, nextUser, nextFlat, nextMsg,
                    nextImg, now, today, auth>>

(* ----------------------------- getAllUsers ------------------------------ *)
\* const [min, max] = value.split('-').map(Number)
RangePair(value) ==
  LET parts == Split(value, "-")
  IN [min |-> Number(parts[1]),
      max |-> IF Len(parts) >= 2 THEN Number(parts[2]) ELSE NaN]

\* matchStage: role, and the birth-date window computed from the age range
MatchStage(u, q) ==
  /\ q.role # <<>> => users[u].role = q.role[1]
  /\ q.age # <<>> =>
       LET r == RangePair(q.age) IN
         /\ r.min.t = "num" /\ r.max.t = "num"
         /\ DateLe(Date(today.y - r.max.n, today.m, today.d), users[u].birthDate)
         /\ DateLe(users[u].birthDate, Date(today.y - r.min.n, today.m, today.d))

UsersMatching(q) == {u \in DOMAIN users : MatchStage(u, q)}

\* the second $match, on publishedFlatsCount
UsersInPipeline(q) ==
  {u \in UsersMatching(q) :
     q.flatsCount # <<>> =>
       LET r == RangePair(q.flatsCount) IN
         /\ r.min.t = "num" /\ r.max.t = "num"
         /\ r.min.n <= PublishedFlatsCount(u) /\ PublishedFlatsCount(u) <= r.max.n}

getAllUsers(caller, q) ==
  LET skip == Skip(q.page, q.limit)
      limit == ParamOr(q.limit, DefaultLimit)
      sortObj == SortObj(q.sort)
  IN /\ IF ~IsAdmin(caller)
          THEN resp' = QueryResp("getAllUsers", 403, caller, q, <<>>, 0)
        ELSE IF WindowError(skip, limit) \/ \E i \in 1..Len(sortObj) : sortObj[i].name = <<>>
          THEN resp' = QueryResp("getAllUsers", 500, caller, q, <<>>, 0)
        ELSE \E order \in SortedOrders(UsersInPipeline(q), sortObj, "users") :
               resp' = QueryResp("getAllUsers", 200, caller, q,
                                 Window(order, skip, limit),
                                 Cardinality(UsersMatching(q)))
     /\ UNCHANGED <<users, flats, messages, cloud, nextUser, nextFlat, nextMsg,
                    nextImg, now, today, auth>>

(* ---------------------------- store machine ---------------------------- *)
\* The database after deployment and one registration: one administrator
\* (created out of band, since no route grants the role without one) and one
\* regular user.
SeedUsers ==
  (1 :> [NewUser(1, BcryptHash(1), Date(1995, 1, 1), 0) EXCEPT !.role = "admin"])
  @@ (2 :> NewUser(2, BcryptHash(1), Date(2000, 1, 1), 500))

Init ==
  /\ users = SeedUsers
  /\ flats = << >>
  /\ messages = << >>
  /\ cloud = {}
  /\ nextUser = 3
  /\ nextFlat = 1
  /\ nextMsg = 1
  /\ nextImg = 1
  /\ now = 1000
  /\ today = Today0
  /\ tokens = {}
  /\ nextReset = 1
  /\ resetLog = {}
  /\ resp = Resp("none", 0, NoId, NoId)
  /\ session = NoSession
  /\ inflight = <<>>
  /\ docVersion = [u \in DOMAIN users |-> 0]
  /\ steps = 0

FlatIdInputs == FlatIds \cup {BadId}
UserIdInputs == UserIds \cup {BadId}

\* One more request is served (the horizon of the exploration is MaxSteps).
Served == steps < MaxSteps /\ steps' = steps + 1

\* Requests that passed protect: the caller is an existing user.
AddFlatReq ==
  \E caller \in DOMAIN users, hasFile \in BOOLEAN, r \in {0, 1} :
    Served /\ addFlat(caller, hasFile, r, <<"Cluj">>)
UpdateFlatReq ==
  \E caller \in DOMAIN users, f \in FlatIdInputs, hasFile \in BOOLEAN, body \in FlatBodies :
    Served /\ updateFlat(caller, f, hasFile, body)
DeleteFlatReq ==
  \E caller \in DOMAIN users, f \in FlatIdInputs : Served /\ deleteFlat(caller, f)
AddToFavoritesReq ==
  \E caller \in DOMAIN users, f \in FlatIdInputs : Served /\ addToFavorites(caller, f)
RemoveFromFavoritesReq ==
  \E caller \in DOMAIN users, f \in FlatIdInputs : Served /\ removeFromFavorites(caller, f)
AddMessageReq ==
  \E caller \in DOMAIN users, f \in FlatIdInputs, contentOk \in BOOLEAN :
    Served /\ addMessage(caller, f, contentOk)
DeleteProfileReq ==
  \E caller \in DOMAIN users : Served /\ deleteProfile(caller)
DeleteUserByIdReq ==
  \E caller \in DOMAIN users, u \in UserIdInputs : Served /\ deleteUserById(caller, u)

Next ==
  \/ AddFlatReq
  \/ UpdateFlatReq
  \/ DeleteFlatReq
  \/ AddToFavoritesReq
  \/ RemoveFromFavoritesReq
  \/ AddMessageReq
  \/ DeleteProfileReq
  \/ DeleteUserByIdReq

Spec == Init /\ [][Next]_vars

(* ------------------------- deletion and ownership ---------------------- *)
\* C5: a successful deleteFlat of listing f removes f, every message of f,
\* f from every user's favoriteFlats and from the owner's addedFlats, and
\* destroys f's image; every other listing, message and favorite is kept.
C5_DeleteFlatCascades ==
  [][(resp'.op = "deleteFlat" /\ resp'.status = 200) =>
       LET f == resp'.target
           owner == flats[f].owner
       IN /\ ~Exists(flats', f)
          /\ \A m \in DOMAIN messages' : messages'[m].flatId # f
          /\ \A u \in DOMAIN users' : ~Includes(users'[u].favoriteFlats, f)
          /\ Exists(users', owner) => ~Includes(users'[owner].addedFlats, f)
          /\ flats[f].image \notin cloud'
          /\ \A g \in (DOMAIN flats) \ {f} : Exists(flats', g) /\ flats'[g] = flats[g]
          /\ \A m \in DOMAIN messages :
               messages[m].flatId # f => Exists(messages', m) /\ messages'[m] = messages[m]
          /\ DOMAIN users' = DOMAIN users
          /\ \A u \in DOMAIN users :
               users'[u].favoriteFlats = Pull(users[u].favoriteFlats, f)
          /\ cloud' = cloud \ {flats[f].image}
    ]_vars

\* four requests: two listings added, one message sent and one listing
\* deleted together with its message; the other listing is kept
C5_Witness ==
  /\ resp.op = "deleteFlat" /\ resp.status = 200
  /\ steps = 4 /\ nextFlat = 3 /\ nextMsg = 2
  /\ Cardinality(DOMAIN flats) = 1
  /\ messages = << >>
  /\ \A u \in DOMAIN users : users[u].favoriteFlats = <<>>

\* C6: a successful deleteProfile / deleteUserById of user u removes u, the
\* listings u owns, the messages u sent, the messages on u's listings, and
\* u's listings from the favorites of the remaining users.
C6_DeleteUserCascades ==
  [][(resp'.op \in {"deleteProfile", "deleteUserById"} /\ resp'.status = 200) =>
       LET u == resp'.target
           owned == FlatsOwnedBy(u)
       IN /\ ~Exists(users', u)
          /\ \A f \in DOMAIN flats' : flats'[f].owner # u
          /\ \A m \in DOMAIN messages' :
               messages'[m].senderId # u /\ messages'[m].flatId \notin owned
          /\ \A v \in DOMAIN users' :
               \A f \in owned : ~Includes(users'[v].favoriteFlats, f)
    ]_vars

\* the deleted user owned a listing that carried a message and a favorite
C6_Witness ==
  /\ resp.op \in {"deleteProfile", "deleteUserById"} /\ resp.status = 200
  /\ steps = 4 /\ nextFlat = 2 /\ nextMsg = 2
  /\ flats = << >> /\ messages = << >>
  /\ cloud = {}
  /\ \A u \in DOMAIN users : users[u].favoriteFlats = <<>>

\* C7: updateFlat and deleteFlat called on an existing listing by a user who
\* is not its owner answer 403 and leave the listing, its image, the
\* messages and every user's favoriteFlats / addedFlats as they were.
C7_OnlyOwnerChangesFlat ==
  [][(/\ resp'.op \in {"updateFlat", "deleteFlat"}
      /\ Exists(flats, resp'.target)
      /\ flats[resp'.target].owner # resp'.caller) =>
       /\ resp'.status = 403
       /\ flats' = flats
       /\ messages' = messages
       /\ users' = users
       /\ (flats[resp'.target].image \in cloud') = (flats[resp'.target].image \in cloud)
    ]_vars

\* the administrator, who does not own the listing, was refused
C7_Witness ==
  /\ resp.op \in {"updateFlat", "deleteFlat"} /\ resp.status = 403
  /\ Exists(flats, resp.target)
  /\ IsAdmin(resp.caller)
  /\ flats[resp.target].owner # resp.caller

\* C8: no stored message is sent by the owner of the listing it concerns.
C8_NoMessageFromOwner ==
  \A m \in DOMAIN messages :
    Exists(flats, messages[m].flatId) =>
      flats[messages[m].flatId].owner # messages[m].senderId

(* ------------------------- identifier handling ------------------------- *)
ServedRoute == steps < MaxRouteSteps /\ steps' = steps + 1

RouteRegister ==
  \E e \in {0, 2, 3}, b \in BirthInputs, r \in Roles :
    ServedRoute /\ register(e, 1, b, r)
RouteAddFlat ==
  \E caller \in DOMAIN users : ServedRoute /\ addFlat(caller, TRUE, 1, <<"Cluj">>)
RouteGetFlatById ==
  \E caller \in DOMAIN users, f \in FlatIdInputs : ServedRoute /\ getFlatById(caller, f)
RouteUpdateFlat ==
  \E caller \in DOMAIN users, f \in FlatIdInputs :
    ServedRoute /\ updateFlat(caller, f, FALSE, [key |-> "none", value |-> 0])
RouteDeleteFlat ==
  \E caller \in DOMAIN users, f \in FlatIdInputs : ServedRoute /\ deleteFlat(caller, f)
RouteAddToFavorites ==
  \E caller \in DOMAIN users, f \in FlatIdInputs : ServedRoute /\ addToFavorites(caller, f)
RouteRemoveFromFavorites ==
  \E caller \in DOMAIN users, f \in FlatIdInputs :
    ServedRoute /\ removeFromFavorites(caller, f)
RouteAddMessage ==
  \E caller \in DOMAIN users, f \in FlatIdInputs : ServedRoute /\ addMessage(caller, f, TRUE)
RouteGetAllMessages ==
  \E caller \in DOMAIN users, f \in FlatIdInputs : ServedRoute /\ getAllMessages(caller, f)
RouteEditUserById ==
  \E caller \in DOMAIN users, u \in UserIdInputs :
    ServedRoute /\ editUserById(caller, u, [key |-> "none", value |-> 0])
RouteUpdateRole ==
  \E caller \in DOMAIN users, u \in UserIdInputs, r \in RoleInputs :
    ServedRoute /\ updateRole(caller, u, r)
RouteDeleteUserById ==
  \E caller \in DOMAIN users, u \in UserIdInputs : ServedRoute /\ deleteUserById(caller, u)
RouteGetUserById ==
  \E caller \in DOMAIN users, u \in UserIdInputs : ServedRoute /\ getUserById(caller, u)

RouteNext ==
  \/ RouteRegister
  \/ RouteAddFlat
  \/ RouteGetFlatById
  \/ RouteUpdateFlat
  \/ RouteDeleteFlat
  \/ RouteAddToFavorites
  \/ RouteRemoveFromFavorites
  \/ RouteAddMessage
  \/ RouteGetAllMessages
  \/ RouteEditUserById
  \/ RouteUpdateRole
  \/ RouteDeleteUserById
  \/ RouteGetUserById

RouteSpec == Init /\ [][RouteNext]_vars

FlatIdOps == {"getFlatById", "updateFlat", "deleteFlat", "addToFavorites",
              "removeFromFavorites", "addMessage", "getAllMessages"}
UserIdOps == {"editUserById", "updateRole", "deleteUserById", "getUserById"}

\* C10: every endpoint with a listing or user identifier in its path answers
\* 400 to a malformed identifier and 404 to a well-formed identifier that
\* names no record (for the admin routes: when the caller is an admin).
C10_IdentifierStatuses ==
  [][/\ (resp'.op \in FlatIdOps /\ ~ObjectIdIsValid(resp'.target)) => resp'.status = 400
     /\ (resp'.op \in FlatIdOps /\ ObjectIdIsValid(resp'.target)
           /\ ~Exists(flats, resp'.target)) => resp'.status = 404
     /\ (resp'.op \in UserIdOps /\ IsAdmin(resp'.caller)
           /\ ~ObjectIdIsValid(resp'.target)) => resp'.status = 400
     /\ (resp'.op \in UserIdOps /\ IsAdmin(resp'.caller)
           /\ ObjectIdIsValid(resp'.target)
           /\ ~Exists(users, resp'.target)) => resp'.status = 404
    ]_vars

(* --------------------------- token machine ----------------------------- *)
\* the clock advances by half a second
TickStep == 500
Tick ==
  /\ now + TickStep <= MaxTime
  /\ now' = now + TickStep
  /\ UNCHANGED <<users, flats, messages, cloud, nextUser, nextFlat, nextMsg,
                 nextImg, today, auth, resp, session, steps, races>>

ServedAuth == steps < MaxAuthSteps /\ steps' = steps + 1

AuthLogin ==
  \E e \in 1..MaxEmail, p \in 1..MaxPassword : ServedAuth /\ login(e, p)
AuthProtect ==
  \E tok \in tokens : ServedAuth /\ protect(tok)
\* PATCH /users/updateMyProfile behind protect
AuthUpdateProfile ==
  \E tok \in tokens, body \in UserBodies :
    ServedAuth /\ ProtectStatus(tok) = 200 /\ updateProfile(tok.id, body)
\* PATCH /users/editProfile/:id behind protect and restrictIfNotAdmin
AuthEditUserById ==
  \E tok \in tokens, u \in UserIdInputs, body \in UserBodies :
    ServedAuth /\ ProtectStatus(tok) = 200 /\ editUserById(tok.id, u, body)
AuthForgotPassword ==
  \E e \in EmailInputs, mailOk \in BOOLEAN : ServedAuth /\ forgotPassword(e, mailOk)
AuthResetPassword ==
  \E t \in 1..MaxReset, p \in PasswordInputs : ServedAuth /\ resetPassword(t, p)

AuthNext ==
  \/ Tick
  \/ AuthLogin
  \/ AuthProtect
  \/ AuthUpdateProfile
  \/ AuthEditUserById
  \/ AuthForgotPassword
  \/ AuthResetPassword

AuthSpec == Init /\ [][AuthNext]_vars

\* C9: protect answers 401 to every token that was issued to a user before
\* that user's password was changed.
C9_OldTokensRejected ==
  (resp.op = "protect" /\ resp.data[1].old /\ Exists(users, resp.caller))
    => resp.status = 401

(* ----------------------------- query machine --------------------------- *)
\* Databases the listing routes are queried on: MaxQFlats listings added at
\* distinct times, the first by the administrator and the others by user 2,
\* with any rent in 1..MaxRent; the first listing's city varies; the last
\* listing's owner is user 2 or, after an updateFlat that rewrote the owner
\* field, an id that names no user.
QFlatIds == 1..MaxQFlats
QCreator(f) == IF f = 1 THEN 1 ELSE 2

QUsers ==
  [u \in DOMAIN SeedUsers |->
     [SeedUsers[u] EXCEPT
        !.addedFlats = IF u = 1 THEN <<1>> ELSE [i \in 1..(MaxQFlats - 1) |-> i + 1]]]

QInit ==
  /\ users = QUsers
  /\ \E rent \in [QFlatIds -> 1..MaxRent], city \in Cities, lastOwner \in {2, 3} :
       flats = [f \in QFlatIds |->
                  NewFlat(IF f = MaxQFlats THEN lastOwner ELSE QCreator(f), f, rent[f],
                          IF f = 1 THEN city ELSE <<"Cluj">>, 500 * f)]
  /\ messages = << >>
  /\ cloud = QFlatIds
  /\ nextUser = 3
  /\ nextFlat = MaxQFlats + 1
  /\ nextMsg = 1
  /\ nextImg = MaxQFlats + 1
  /\ now = 500 * (MaxQFlats + 1)
  /\ today = Today0
  /\ tokens = {}
  /\ nextReset = 1
  /\ resetLog = {}
  /\ resp = Resp("none", 0, NoId, NoId)
  /\ session = NoSession
  /\ inflight = <<>>
  /\ docVersion = [u \in DOMAIN users |-> 0]
  /\ steps = 0

\* query-string values of at most MaxLen atoms, the ranges with a signed
\* lower bound, and lists with a hyphen in a segment
QAtoms == {"1", "2", "-", ",", " ", "Alba", "Iulia"}
SignedRanges == {<<"-", a, "-", b>> : a \in {"1", "2"}, b \in {"1", "2"}}
HyphenLists == {<<"-", "1", ",", "2">>, <<"Alba", "-", "Iulia", ",", "Cluj">>}
FilterValues ==
  UNION {[1..n -> QAtoms] : n \in 0..MaxLen} \cup SignedRanges \cup HyphenLists

Query(filters, sort, page, limit) ==
  [filters |-> filters, sort |-> sort, page |-> page, limit |-> limit]

\* sort, page and limit parameters
SortInputs ==
  {<<>>, <<"rentPrice">>, <<"-", "rentPrice">>, <<"city", ",", "-", "rentPrice">>,
   <<"rentPrice", ",", "-", "rentPrice">>}
PageInputs == {<<>>} \cup {<<n>> : n \in (0 - 1)..MaxPage}
LimitInputs == {<<>>} \cup {<<n>> : n \in 0..MaxLimit}
PagedFilters ==
  {<<>>,
   <<[key |-> "rentPrice", value |-> <<"1", "-", "2">>]>>,
   <<[key |-> "rentPrice", value |-> <<"1", "-", "2">>],
     [key |-> "city", value |-> <<"Cluj">>]>>}

\* A client that reads the pages of one query in order keeps what it has
\* received so far: page 1 starts the list, page n + 1 of the same query
\* extends it, any other request drops it.
BaseOf(q) == [q EXCEPT !.page = <<>>]

Track(op, q, r) ==
  IF r.status # 200 \/ q.page = <<>> \/ q.limit = <<>> THEN NoSession
  ELSE IF q.page[1] = 1
    THEN [active |-> TRUE, op |-> op, base |-> BaseOf(q), acc |-> r.data, pages |-> 1]
  ELSE IF session.active /\ session.op = op /\ session.base = BaseOf(q)
          /\ session.pages + 1 = q.page[1]
    THEN [session EXCEPT !.acc = @ \o r.data, !.pages = @ + 1]
  ELSE NoSession

\* A request is the first of a client, or asks for the page after the
\* pages the client has read.
First == steps = 0 /\ steps' = 1

Reading(op) ==
  /\ session.active /\ session.op = op
  /\ steps < MaxPage /\ steps' = steps + 1

NextPageOf(base) == [base EXCEPT !.page = <<session.pages + 1>>]

\* GET /flats with one filter parameter
FilterFlats ==
  /\ First
  /\ \E key \in {"rentPrice", "city"}, value \in FilterValues :
       LET q == Query(<<[key |-> key, value |-> value]>>, <<>>, <<>>, <<>>) IN
         getAllFlats(q) /\ session' = Track("getAllFlats", q, resp') /\ UNCHANGED races

\* GET /flats with sort, page and limit
PageFlats ==
  /\ First
  /\ \E filters \in PagedFilters, sort \in SortInputs, page \in PageInputs, limit \in LimitInputs :
       LET q == Query(filters, sort, page, limit) IN
         getAllFlats(q) /\ session' = Track("getAllFlats", q, resp') /\ UNCHANGED races

\* GET /flats for the next page
NextPageFlats ==
  /\ Reading("getAllFlats")
  /\ LET q == NextPageOf(session.base) IN
       getAllFlats(q) /\ session' = Track("getAllFlats", q, resp') /\ UNCHANGED races

UserQuery(role, age, flatsCount, sort, page, limit) ==
  [role |-> role, age |-> age, flatsCount |-> flatsCount,
   sort |-> sort, page |-> page, limit |-> limit]

RoleFilters == {<<>>, <<"user">>, <<"admin">>}
AgeFilters == {<<>>, <<"2", "0", "-", "3", "0">>, <<"3", "0", "-", "3", "1">>}
FlatsCountFilters == {<<>>, <<"0", "-", "1">>, <<"2", "-", "3">>}
UserSortInputs == {<<>>, <<"role">>, <<"-", "publishedFlatsCount">>}

\* GET /users/allUsers
PageUsers ==
  /\ First
  /\ \E caller \in DOMAIN users, role \in RoleFilters, age \in AgeFilters,
        flatsCount \in FlatsCountFilters, sort \in UserSortInputs,
        page \in {<<>>, <<1>>}, limit \in {<<>>, <<1>>} :
       LET q == UserQuery(role, age, flatsCount, sort, page, limit) IN
         getAllUsers(caller, q) /\ session' = Track("getAllUsers", q, resp') /\ UNCHANGED races

\* GET /users/allUsers for the next page
NextPageUsers ==
  /\ Reading("getAllUsers")
  /\ LET q == NextPageOf(session.base) IN
       getAllUsers(resp.caller, q) /\ session' = Track("getAllUsers", q, resp') /\ UNCHANGED races

\* GET /flats again with the direction of a one-field sort reversed; the
\* client keeps the data of the first answer
ReverseSortFlats ==
  /\ resp.op = "getAllFlats" /\ resp.status = 200
  /\ steps = 1 /\ steps' = 2
  /\ Len(resp.query[1].sort) = 1
  /\ resp.query[1].page = <<>> /\ resp.query[1].limit = <<>>
  /\ getAllFlats([resp.query[1] EXCEPT !.sort = <<"-">> \o @])
  /\ session' = [active |-> FALSE, prev |-> resp.data] /\ UNCHANGED races

QueryNext ==
  \/ FilterFlats
  \/ PageFlats
  \/ NextPageFlats
  \/ ReverseSortFlats
  \/ PageUsers
  \/ NextPageUsers

QuerySpec == QInit /\ [][QueryNext]_vars

(* ---------------------------- priced listings -------------------------- *)
\* A database of five listings added by user 2 at distinct times, with the
\* rents 200, 350, 600, 700 and 450.
PricedRents == <<200, 350, 600, 700, 450>>

PricedInit ==
  /\ users = [u \in DOMAIN SeedUsers |->
                [SeedUsers[u] EXCEPT
                   !.addedFlats = IF u = 2 THEN [i \in DOMAIN PricedRents |-> i] ELSE <<>>]]
  /\ flats = [f \in DOMAIN PricedRents |->
                NewFlat(2, f, PricedRents[f], <<"Cluj">>, 500 * f)]
  /\ messages = << >>
  /\ cloud = DOMAIN PricedRents
  /\ nextUser = 3
  /\ nextFlat = Len(PricedRents) + 1
  /\ nextMsg = 1
  /\ nextImg = Len(PricedRents) + 1
  /\ now = 500 * (Len(PricedRents) + 1)
  /\ today = Today0
  /\ tokens = {}
  /\ nextReset = 1
  /\ resetLog = {}
  /\ resp = Resp("none", 0, NoId, NoId)
  /\ session = NoSession
  /\ inflight = <<>>
  /\ docVersion = [u \in DOMAIN users |-> 0]
  /\ steps = 0

\* rentPrice ranges in hundreds, and a range ending at 450
PricedRanges ==
  {<<a, "0", "0", "-", b, "0", "0">> : a \in {"2", "3"}, b \in {"6", "7"}}
    \cup {<<"3", "0", "0", "-", "4", "5", "0">>}

\* GET /flats?rentPrice=min-max with sort, page and limit
PricedFlats ==
  /\ First
  /\ \E value \in PricedRanges, sort \in {<<>>, <<"rentPrice">>, <<"-", "rentPrice">>},
        page \in PageInputs, limit \in LimitInputs :
       LET q == Query(<<[key |-> "rentPrice", value |-> value]>>, sort, page, limit) IN
         getAllFlats(q) /\ session' = Track("getAllFlats", q, resp') /\ UNCHANGED races

PricedNext ==
  \/ PricedFlats
  \/ NextPageFlats

PricedSpec == PricedInit /\ [][PricedNext]_vars

(* ------------------------------ age machine ---------------------------- *)
\* The calendar, for the local-time getters of Date
LeapYear(y) == y % 4 = 0 /\ (y % 100 # 0 \/ y % 400 = 0)
DaysIn(y, m) ==
  IF m = 2 THEN (IF LeapYear(y) THEN 29 ELSE 28)
  ELSE IF m \in {4, 6, 9, 11} THEN 30 ELSE 31

NextDay(t) ==
  IF t.d < DaysIn(t.y, t.m) THEN Date(t.y, t.m, t.d + 1)
  ELSE IF t.m < 12 THEN Date(t.y, t.m + 1, 1) ELSE Date(t.y + 1, 1, 1)

PrevDay(t) ==
  IF t.d > 1 THEN Date(t.y, t.m, t.d - 1)
  ELSE IF t.m > 1 THEN Date(t.y, t.m - 1, DaysIn(t.y, t.m - 1)) ELSE Date(t.y - 1, 12, 31)

\* getFullYear(), getMonth() and getDate() read an instant (a UTC date and
\* hour) in the time zone of the server process
LocalDate(t, hour, zone) ==
  IF hour + zone < 0 THEN PrevDay(t)
  ELSE IF hour + zone >= 24 THEN NextDay(t) ELSE Date(t.y, t.m, t.d)

\* the validator's age of a birth date stored as UTC midnight, at a server clock
ValidatorAgeAt(dob, clock) ==
  ValidatorAge(LocalDate(dob, 0, clock.zone), LocalDate(clock, clock.h, clock.zone))

\* Clocks and birth dates: days around month and year ends, hours early and
\* late in the day, a server in UTC, west of it and east of it.
MonthDays == {<<1, 1>>, <<1, 31>>, <<2, 1>>, <<2, 28>>, <<3, 1>>, <<12, 31>>}
BirthYears == {2007, 2008}
BirthDates ==
  {Date(y, md[1], md[2]) : y \in BirthYears, md \in MonthDays} \cup {Date(2008, 2, 29)}
ClockHours == {0, 12, 23}
ZoneOffsets == {0 - 5, 0, 2}

AgeInit ==
  /\ \E dob \in BirthDates :
       users = [SeedUsers EXCEPT ![2].birthDate = dob]
  /\ \E md \in MonthDays, h \in ClockHours, zone \in ZoneOffsets :
       today = [y |-> 2026, m |-> md[1], d |-> md[2], h |-> h, zone |-> zone]
  /\ flats = << >>
  /\ messages = << >>
  /\ cloud = {}
  /\ nextUser = 3
  /\ nextFlat = 1
  /\ nextMsg = 1
  /\ nextImg = 1
  /\ now = 1000
  /\ tokens = {}
  /\ nextReset = 1
  /\ resetLog = {}
  /\ resp = Resp("none", 0, NoId, NoId)
  /\ session = NoSession
  /\ inflight = <<>>
  /\ docVersion = [u \in DOMAIN users |-> 0]
  /\ steps = 0

\* the birthDate validator runs on a record
ValidateBirthDate ==
  /\ First
  /\ \E u \in DOMAIN users :
       resp' = [Resp("validator", 200, NoId, u) EXCEPT
                  !.data = <<ValidatorAgeAt(users[u].birthDate, today)>>]
  /\ session' = NoSession /\ UNCHANGED races
  /\ UNCHANGED <<users, flats, messages, cloud, nextUser, nextFlat, nextMsg,
                 nextImg, now, today, auth>>

\* the $addFields stage of getAllUsers computes the age of the same record
ProjectAge ==
  /\ resp.op = "validator"
  /\ steps = 1 /\ steps' = 2
  /\ resp' = [Resp("age", 200, NoId, resp.target) EXCEPT
                !.data = <<PipelineAge(users[resp.target].birthDate, today)>>]
  /\ session' = [active |-> FALSE, prev |-> resp.data] /\ UNCHANGED races
  /\ UNCHANGED <<users, flats, messages, cloud, nextUser, nextFlat, nextMsg,
                 nextImg, now, today, auth>>

AgeNext ==
  \/ ValidateBirthDate
  \/ ProjectAge

AgeSpec == AgeInit /\ [][AgeNext]_vars

(* ---------------------------- account machine -------------------------- *)
\* Accounts are registered and edited, and the admin routes are called with
\* the tokens that login issued: protect has let the token through and the
\* handler runs behind restrictIfNotAdmin.
ServedAccount == steps < MaxAccountSteps /\ steps' = steps + 1

AccountBodies ==
  {[key |-> "email", value |-> e] : e \in EmailInputs}
    \cup {[key |-> "role", value |-> r] : r \in Roles}

AccountLogin ==
  \E e \in 1..MaxEmail : ServedAccount /\ login(e, 1)
AccountRegister ==
  \E e \in EmailInputs, p \in {0, 1}, r \in Roles :
    ServedAccount /\ register(e, p, Date(2000, 1, 1), r)
AccountUpdateProfile ==
  \E tok \in tokens, body \in AccountBodies :
    ServedAccount /\ ProtectStatus(tok) = 200 /\ updateProfile(tok.id, body)
AccountEditUserById ==
  \E tok \in tokens, u \in UserIds, body \in AccountBodies :
    ServedAccount /\ ProtectStatus(tok) = 200 /\ editUserById(tok.id, u, body)
AccountUpdateRole ==
  \E tok \in tokens, u \in UserIds, r \in Roles :
    ServedAccount /\ ProtectStatus(tok) = 200 /\ updateRole(tok.id, u, r)
AccountDeleteUserById ==
  \E tok \in tokens, u \in UserIds :
    ServedAccount /\ ProtectStatus(tok) = 200 /\ deleteUserById(tok.id, u)
AccountGetUserById ==
  \E tok \in tokens, u \in UserIds :
    ServedAccount /\ ProtectStatus(tok) = 200 /\ getUserById(tok.id, u)
AccountGetAllUsers ==
  \E tok \in tokens :
    /\ ServedAccount /\ ProtectStatus(tok) = 200
    /\ getAllUsers(tok.id, UserQuery(<<>>, <<>>, <<>>, <<>>, <<>>, <<>>))
    /\ session' = session /\ UNCHANGED races

AccountNext ==
  \/ AccountLogin
  \/ AccountRegister
  \/ AccountUpdateProfile
  \/ AccountEditUserById
  \/ AccountUpdateRole
  \/ AccountDeleteUserById
  \/ AccountGetUserById
  \/ AccountGetAllUsers

AccountSpec == Init /\ [][AccountNext]_vars

(* ----------------------------- reset machine --------------------------- *)
\* Password resets over a clock that advances five minutes at a time, so
\* that a reset token can outlive its ten minutes.
MaxResetSteps == 5
MaxResetTicks == 3
ResetTickStep == 5 * 60 * 1000

ServedReset == steps < MaxResetSteps /\ steps' = steps + 1

ResetTick ==
  /\ ServedReset
  /\ now + ResetTickStep <= 1000 + MaxResetTicks * ResetTickStep
  /\ now' = now + ResetTickStep
  /\ UNCHANGED <<users, flats, messages, cloud, nextUser, nextFlat, nextMsg,
                 nextImg, today, auth, resp, session, races>>
ResetForgotPassword ==
  \E e \in 0..MaxEmail, mailOk \in BOOLEAN : ServedReset /\ forgotPassword(e, mailOk)
ResetResetPassword ==
  \E t \in 1..MaxReset, p \in {0, 2} : ServedReset /\ resetPassword(t, p)

ResetNext ==
  \/ ResetTick
  \/ ResetForgotPassword
  \/ ResetResetPassword

ResetSpec == Init /\ [][ResetNext]_vars

(* ---------------------------- message machine -------------------------- *)
\* Three accounts and one listing of user 2; messages are sent and read
\* while the clock advances.
MessageInit ==
  /\ users = With([SeedUsers EXCEPT ![2].addedFlats = <<1>>], 3,
                  NewUser(3, BcryptHash(1), Date(2000, 1, 1), 500))
  /\ flats = (1 :> NewFlat(2, 1, 1, <<"Cluj">>, 500))
  /\ messages = << >>
  /\ cloud = {1}
  /\ nextUser = 4
  /\ nextFlat = 2
  /\ nextMsg = 1
  /\ nextImg = 2
  /\ now = 1000
  /\ today = Today0
  /\ tokens = {}
  /\ nextReset = 1
  /\ resetLog = {}
  /\ resp = Resp("none", 0, NoId, NoId)
  /\ session = NoSession
  /\ inflight = <<>>
  /\ docVersion = [u \in DOMAIN users |-> 0]
  /\ steps = 0

MessageSend ==
  \E caller \in DOMAIN users, f \in {1, 2}, contentOk \in BOOLEAN :
    addMessage(caller, f, contentOk) /\ UNCHANGED steps
MessageRead ==
  \E caller \in DOMAIN users, f \in {1, 2} :
    getAllMessages(caller, f) /\ UNCHANGED steps

MessageNext ==
  \/ Tick
  \/ MessageSend
  \/ MessageRead

MessageSpec == MessageInit /\ [][MessageNext]_vars

(* ------------------------------ race machine --------------------------- *)
\* Requests on listing 1 (of user 1) run concurrently: every await of a
\* handler is one step, and the steps of the requests in progress interleave.
\* A request in progress holds its position (pc) and what it has read: the
\* favoriteFlats array and version key of the loaded user (favs, v), and the
\* image of the loaded listing or the id of the created message (local).
MaxRequests == 3

Request(op, caller, flat) ==
  [op |-> op, caller |-> caller, flat |-> flat, pc |-> "start", status |-> 0,
   favs |-> <<>>, v |-> 0, local |-> 0]

RaceInit ==
  /\ users = [SeedUsers EXCEPT ![1].addedFlats = <<1>>]
  /\ flats = (1 :> NewFlat(1, 1, 1, <<"Cluj">>, 500))
  /\ messages = << >>
  /\ cloud = {1}
  /\ nextUser = 3
  /\ nextFlat = 2
  /\ nextMsg = 1
  /\ nextImg = 2
  /\ now = 1000
  /\ today = Today0
  /\ tokens = {}
  /\ nextReset = 1
  /\ resetLog = {}
  /\ resp = Resp("none", 0, NoId, NoId)
  /\ session = NoSession
  /\ inflight = <<>>
  /\ docVersion = [u \in DOMAIN users |-> 0]
  /\ steps = 0

RaceOps == {"deleteFlat", "addToFavorites", "removeFromFavorites", "addMessage"}

\* a request arrives (protect has passed)
Arrive ==
  /\ Len(inflight) < MaxRequests
  /\ \E op \in RaceOps, caller \in DOMAIN users :
       inflight' = Append(inflight, Request(op, caller, 1))
  /\ UNCHANGED <<users, flats, messages, cloud, nextUser, nextFlat, nextMsg, nextImg,
                 now, today, auth, resp, session, steps, docVersion>>

\* request i moves to position pc
Goto(i, pc) == inflight' = [inflight EXCEPT ![i].pc = pc]

\* request i answers
Finish(i, status) ==
  /\ inflight' = [inflight EXCEPT ![i].pc = "done", ![i].status = status]
  /\ resp' = Resp(inflight[i].op, status, inflight[i].caller, inflight[i].flat)

At(i, op, pc) == inflight[i].op = op /\ inflight[i].pc = pc

\* what no step of these four handlers writes
untouched == <<nextUser, nextFlat, nextImg, now, today, auth, session, steps>>

\* Flat.findById and the ownership check of deleteFlat (steps 2-3)
DeleteFlatFind(i) ==
  LET r == inflight[i] IN
  /\ At(i, "deleteFlat", "start")
  /\ UNCHANGED untouched
  /\ IF ~Exists(flats, r.flat) THEN Finish(i, 404)
     ELSE IF ~IsOwner(flats[r.flat], r.caller) THEN Finish(i, 403)
     ELSE /\ inflight' = [inflight EXCEPT ![i].pc = "destroy",
                                           ![i].local = flats[r.flat].image]
          /\ UNCHANGED resp
  /\ UNCHANGED <<store, docVersion, nextMsg>>

\* cloudinary.uploader.destroy (step 4)
DeleteFlatDestroy(i) ==
  /\ At(i, "deleteFlat", "destroy")
  /\ UNCHANGED untouched
  /\ cloud' = cloud \ {inflight[i].local}
  /\ Goto(i, "messages")
  /\ UNCHANGED <<users, flats, messages, docVersion, nextMsg, resp>>

\* Message.deleteMany({ flatId }) (step 5)
DeleteFlatMessages(i) ==
  /\ At(i, "deleteFlat", "messages")
  /\ UNCHANGED untouched
  /\ messages' = [m \in {x \in DOMAIN messages : messages[x].flatId # inflight[i].flat}
                    |-> messages[m]]
  /\ Goto(i, "favorites")
  /\ UNCHANGED <<users, flats, cloud, docVersion, nextMsg, resp>>

\* User.updateMany($pull favoriteFlats) (step 6)
DeleteFlatFavorites(i) ==
  /\ At(i, "deleteFlat", "favorites")
  /\ UNCHANGED untouched
  /\ users' = [u \in DOMAIN users |->
                 [users[u] EXCEPT !.favoriteFlats = Pull(@, inflight[i].flat)]]
  /\ Goto(i, "added")
  /\ UNCHANGED <<flats, messages, cloud, docVersion, nextMsg, resp>>

\* User.findByIdAndUpdate($pull addedFlats) (step 7)
DeleteFlatAdded(i) ==
  /\ At(i, "deleteFlat", "added")
  /\ UNCHANGED untouched
  /\ users' = [u \in DOMAIN users |->
                 IF u = inflight[i].caller
                   THEN [users[u] EXCEPT !.addedFlats = Pull(@, inflight[i].flat)]
                   ELSE users[u]]
  /\ Goto(i, "remove")
  /\ UNCHANGED <<flats, messages, cloud, docVersion, nextMsg, resp>>

\* Flat.findByIdAndDelete and the answer (steps 8-9)
DeleteFlatRemove(i) ==
  /\ At(i, "deleteFlat", "remove")
  /\ UNCHANGED untouched
  /\ flats' = [f \in (DOMAIN flats) \ {inflight[i].flat} |-> flats[f]]
  /\ Finish(i, 200)
  /\ UNCHANGED <<users, messages, cloud, docVersion, nextMsg>>

\* Flat.findById of addToFavorites (step 2)
AddToFavoritesFind(i) ==
  /\ At(i, "addToFavorites", "start")
  /\ UNCHANGED untouched
  /\ IF ~Exists(flats, inflight[i].flat) THEN Finish(i, 404)
     ELSE Goto(i, "user") /\ UNCHANGED resp
  /\ UNCHANGED <<store, docVersion, nextMsg>>

\* User.findById and the includes check (steps 3-4)
AddToFavoritesUser(i) ==
  LET r == inflight[i] IN
  /\ At(i, "addToFavorites", "user")
  /\ UNCHANGED untouched
  /\ IF ~Exists(users, r.caller) THEN Finish(i, 404)
     ELSE IF Includes(users[r.caller].favoriteFlats, r.flat)
       THEN /\ inflight' = [inflight EXCEPT ![i].pc = "done", ![i].status = 400,
                                             ![i].favs = users[r.caller].favoriteFlats]
            /\ resp' = Resp(r.op, 400, r.caller, r.flat)
     ELSE /\ inflight' = [inflight EXCEPT ![i].pc = "save",
                                           ![i].favs = users[r.caller].favoriteFlats,
                                           ![i].v = docVersion[r.caller]]
          /\ UNCHANGED resp
  /\ UNCHANGED <<store, docVersion, nextMsg>>

\* favoriteFlats.push and user.save (step 5): the push is sent as a $push,
\* which increments the version key without checking it
AddToFavoritesSave(i) ==
  LET r == inflight[i] IN
  /\ At(i, "addToFavorites", "save")
  /\ UNCHANGED untouched
  /\ IF ~Exists(users, r.caller)
       THEN Finish(i, 500) /\ UNCHANGED <<users, docVersion>>
     ELSE /\ users' = [users EXCEPT ![r.caller].favoriteFlats = Append(@, r.flat)]
          /\ docVersion' = [docVersion EXCEPT ![r.caller] = @ + 1]
          /\ Finish(i, 200)
  /\ UNCHANGED <<flats, messages, cloud, nextMsg>>

\* User.findById and the indexOf check of removeFromFavorites (steps 2-3)
RemoveFromFavoritesUser(i) ==
  LET r == inflight[i] IN
  /\ At(i, "removeFromFavorites", "start")
  /\ UNCHANGED untouched
  /\ IF ~Exists(users, r.caller) THEN Finish(i, 404)
     ELSE IF IndexOf(users[r.caller].favoriteFlats, r.flat) = 0
       THEN /\ inflight' = [inflight EXCEPT ![i].pc = "done", ![i].status = 400,
                                             ![i].favs = users[r.caller].favoriteFlats]
            /\ resp' = Resp(r.op, 400, r.caller, r.flat)
     ELSE /\ inflight' = [inflight EXCEPT ![i].pc = "save",
                                           ![i].favs = users[r.caller].favoriteFlats,
                                           ![i].v = docVersion[r.caller]]
          /\ UNCHANGED resp
  /\ UNCHANGED <<store, docVersion, nextMsg>>

\* favoriteFlats.splice and user.save (step 4): the array is sent whole with
\* the version key the document was loaded with; a stale version is refused
RemoveFromFavoritesSave(i) ==
  LET r == inflight[i] IN
  /\ At(i, "removeFromFavorites", "save")
  /\ UNCHANGED untouched
  /\ IF ~Exists(users, r.caller) \/ docVersion[r.caller] # r.v
       THEN Finish(i, 500) /\ UNCHANGED <<users, docVersion>>
     ELSE /\ users' = [users EXCEPT
                         ![r.caller].favoriteFlats = Splice1(r.favs, IndexOf(r.favs, r.flat))]
          /\ docVersion' = [docVersion EXCEPT ![r.caller] = @ + 1]
          /\ Finish(i, 200)
  /\ UNCHANGED <<flats, messages, cloud, nextMsg>>

\* Flat.findById and the owner check of addMessage
AddMessageFind(i) ==
  LET r == inflight[i] IN
  /\ At(i, "addMessage", "start")
  /\ UNCHANGED untouched
  /\ IF ~Exists(flats, r.flat) THEN Finish(i, 404)
     ELSE IF IsOwner(flats[r.flat], r.caller) THEN Finish(i, 403)
     ELSE Goto(i, "create") /\ UNCHANGED resp
  /\ UNCHANGED <<store, docVersion, nextMsg>>

\* Message.create
AddMessageCreate(i) ==
  LET r == inflight[i] IN
  /\ At(i, "addMessage", "create")
  /\ UNCHANGED untouched
  /\ messages' = With(messages, nextMsg, NewMessage(r.flat, r.caller, now))
  /\ nextMsg' = nextMsg + 1
  /\ inflight' = [inflight EXCEPT ![i].pc = "push", ![i].local = nextMsg]
  /\ UNCHANGED <<users, flats, cloud, docVersion, resp>>

\* Flat.findByIdAndUpdate($push messages) and the answer
AddMessagePush(i) ==
  LET r == inflight[i] IN
  /\ At(i, "addMessage", "push")
  /\ UNCHANGED untouched
  /\ flats' = [f \in DOMAIN flats |->
                 IF f = r.flat THEN [flats[f] EXCEPT !.messages = Append(@, r.local)]
                 ELSE flats[f]]
  /\ Finish(i, 201)
  /\ UNCHANGED <<users, messages, cloud, docVersion, nextMsg>>

\* a request arrives, or a request in progress passes one await
RaceNext ==
  \/ Arrive
  \/ \E i \in 1..Len(inflight) : DeleteFlatFind(i)
  \/ \E i \in 1..Len(inflight) : DeleteFlatDestroy(i)
  \/ \E i \in 1..Len(inflight) : DeleteFlatMessages(i)
  \/ \E i \in 1..Len(inflight) : DeleteFlatFavorites(i)
  \/ \E i \in 1..Len(inflight) : DeleteFlatAdded(i)
  \/ \E i \in 1..Len(inflight) : DeleteFlatRemove(i)
  \/ \E i \in 1..Len(inflight) : AddToFavoritesFind(i)
  \/ \E i \in 1..Len(inflight) : AddToFavoritesUser(i)
  \/ \E i \in 1..Len(inflight) : AddToFavoritesSave(i)
  \/ \E i \in 1..Len(inflight) : RemoveFromFavoritesUser(i)
  \/ \E i \in 1..Len(inflight) : RemoveFromFavoritesSave(i)
  \/ \E i \in 1..Len(inflight) : AddMessageFind(i)
  \/ \E i \in 1..Len(inflight) : AddMessageCreate(i)
  \/ \E i \in 1..Len(inflight) : AddMessagePush(i)

RaceSpec == RaceInit /\ [][RaceNext]_vars


(* --------------------------- listing queries --------------------------- *)
\* the full result of a query: what it returns without $skip and $limit
FullFlats(q) == FlatsJoined(q.filters)
FullUsers(q) == UsersInPipeline(q)

Unsigned(s) == AllDigits(s)
Signed(s) == AllDigits(s) \/ (s # <<>> /\ Head(s) = "-" /\ AllDigits(Tail(s)))

\* the ways to read value as min-max: the position of the separating hyphen
\* and the two numbers around it
RangeReadings(value, signed) ==
  {[min |-> Number(SubSeq(value, 1, k - 1)).n, max |-> Number(SubSeq(value, k + 1, Len(value))).n] :
     k \in {i \in 1..Len(value) :
              /\ value[i] = "-"
              /\ IF signed
                   THEN Signed(SubSeq(value, 1, i - 1)) /\ Signed(SubSeq(value, i + 1, Len(value)))
                   ELSE Unsigned(SubSeq(value, 1, i - 1)) /\ Unsigned(SubSeq(value, i + 1, Len(value)))}}

InBounds(fv, r) == fv.t = "num" /\ r.min <= fv.n /\ fv.n <= r.max

\* every returned listing lies in [min, max] for every min-max parameter
ReturnedWithinRange(signed) ==
  resp.op = "getAllFlats" /\ resp.status = 200 =>
    LET q == resp.query[1] IN
      \A i \in 1..Len(q.filters) :
        ~Includes(q.filters[i].value, ",") =>
          \A r \in RangeReadings(q.filters[i].value, signed) :
            \A n \in 1..Len(resp.data) :
              InBounds(FlatField(flats[resp.data[n]], q.filters[i].key), r)

\* C1 as stated: for every filter parameter min-max with numeric min and
\* max and no comma, every listing getAllFlats returns has min <= v <= max.
C1_RangeFilterInclusive == ReturnedWithinRange(TRUE)

\* C1 amended: for every filter parameter min-max whose min and max are
\* unsigned numerals (and no comma), every listing getAllFlats returns has
\* min <= v <= max; and with the default page and limit every listing that
\* the same query without this parameter returns and whose value lies in
\* [min, max], the bounds included, is returned.
C1_UnsignedRangeFilterInclusive ==
  /\ ReturnedWithinRange(FALSE)
  /\ resp.op = "getAllFlats" /\ resp.status = 200 =>
       LET q == resp.query[1] IN
         q.page = <<>> /\ q.limit = <<>> =>
           \A i \in 1..Len(q.filters) :
             ~Includes(q.filters[i].value, ",") =>
               \A r \in RangeReadings(q.filters[i].value, FALSE) :
                 \A f \in FlatsJoined(Splice1(q.filters, i)) :
                   InBounds(FlatField(flats[f], q.filters[i].key), r)
                     => Includes(resp.data, f)

\* rentPrice=1-2 returned a listing priced 1 and a listing priced 2
C1_Witness ==
  /\ resp.op = "getAllFlats" /\ resp.status = 200
  /\ resp.query[1].filters = <<[key |-> "rentPrice", value |-> <<"1", "-", "2">>]>>
  /\ \E a, b \in Range(resp.data) : flats[a].rentPrice = 1 /\ flats[b].rentPrice = 2

\* C2: for getAllFlats and getAllUsers, whatever the filters, page and
\* limit, totalCount is the number of records of the full unpaginated result.
C2_TotalCountIsFullResultSize ==
  resp.status = 200 =>
    /\ resp.op = "getAllFlats" =>
         resp.totalCount = Cardinality(FullFlats(resp.query[1]))
    /\ resp.op = "getAllUsers" =>
         resp.totalCount = Cardinality(FullUsers(resp.query[1]))

\* C3: getAllFlats with city=Alba Iulia and with city=Alba-Iulia both
\* return a stored listing whose city is Alba-Iulia.
C3_CityMatchesSpaceOrHyphen ==
  /\ resp.op = "getAllFlats" /\ resp.status = 200
  /\ resp.query[1].page = <<>> /\ resp.query[1].limit = <<>>
  /\ \E v \in {<<"Alba", " ", "Iulia">>, <<"Alba", "-", "Iulia">>} :
       resp.query[1].filters = <<[key |-> "city", value |-> v]>>
  => \A f \in DOMAIN flats :
       flats[f].city = <<"Alba", "-", "Iulia">> /\ Exists(users, flats[f].owner)
         => Includes(resp.data, f)

\* the client has read pages 1..N, enough to hold the full result
AllPagesRead ==
  /\ session.active
  /\ session.pages * session.base.limit[1] >=
       Cardinality(IF session.op = "getAllFlats" THEN FullFlats(session.base)
                   ELSE FullUsers(session.base))

\* C4: for a fixed filter, sort and limit >= 1, the data of pages 1..N
\* concatenated is the full sorted result: every record once, in order.
C4_PagesConcatenateToFullResult ==
  AllPagesRead =>
    session.acc \in
      IF session.op = "getAllFlats"
        THEN SortedOrders(FullFlats(session.base), SortObj(session.base.sort), "flats")
        ELSE SortedOrders(FullUsers(session.base), SortObj(session.base.sort), "users")


(* --------------------------- malformed ranges -------------------------- *)
\* a range segment read as a number: digits, or blank for 0
SegmentIsNumber(seg) == Trim(seg) = <<>> \/ AllDigits(Trim(seg))
SegmentNumber(seg) == IF Trim(seg) = <<>> THEN 0 ELSE Decimal(Trim(seg), 0)

\* a segment that is empty or not a number
Malformed(seg) == seg = <<>> \/ ~SegmentIsNumber(seg)

\* the response to GET /flats with one filter parameter and no paging
SingleFilter ==
  /\ resp.op = "getAllFlats"
  /\ Len(resp.query[1].filters) = 1
  /\ resp.query[1].page = <<>> /\ resp.query[1].limit = <<>>

SingleRange ==
  /\ SingleFilter
  /\ Includes(resp.query[1].filters[1].value, "-")
  /\ ~Includes(resp.query[1].filters[1].value, ",")

C12_AgeFilterMatchesDerivedAge ==
  (/\ resp.op = "getAllUsers" /\ resp.status = 200
   /\ resp.query[1].age # <<>>
   /\ resp.query[1].page = <<>> /\ resp.query[1].limit = <<>>)
  => LET q == resp.query[1]
         min == SegmentNumber(Split(q.age, "-")[1])
         max == SegmentNumber(Split(q.age, "-")[2])
     IN Range(resp.data) =
          {u \in FullUsers([q EXCEPT !.age = <<>>]) :
             /\ min <= PipelineAge(users[u].birthDate, today)
             /\ PipelineAge(users[u].birthDate, today) <= max}


(* ---------------------------- sort direction --------------------------- *)
Reverse(s) == [i \in 1..Len(s) |-> s[Len(s) + 1 - i]]

\* the answers to sort=field and then to sort=-field are both at hand
BothDirections ==
  /\ resp.op = "getAllFlats" /\ resp.status = 200
  /\ ~session.active /\ DOMAIN session = {"active", "prev"}

\* C13: when the values of the sort field are pairwise distinct, the result
\* for sort=-field is the reverse of the result for sort=field; records that
\* share the value keep the same relative order in both results, the
\* insertion order.
C13_ReverseSortAndStableTies ==
  BothDirections =>
    LET up == session.prev
        down == resp.data
        field == resp.query[1].sort[2]
        key(f) == FlatField(flats[f], field)
        ties == {p \in Range(up) \X Range(up) : p[1] < p[2] /\ key(p[1]) = key(p[2])}
    IN /\ ties = {} => down = Reverse(up)
       /\ \A p \in ties :
            /\ IndexOf(up, p[1]) < IndexOf(up, p[2])
            /\ IndexOf(down, p[1]) < IndexOf(down, p[2])


(* ------------------------------ sort stage ----------------------------- *)
\* the (field, direction) pair a token of the sort parameter stands for
TokenEntry(token) ==
  IF token # <<>> /\ Head(token) = "-"
    THEN [name |-> Tail(token), dir |-> -1]
    ELSE [name |-> token, dir |-> 1]

\* the pairs of the sort parameter in the order of its tokens; createdAt
\* descending when the parameter is absent
ListedOrder(sort) ==
  IF sort = <<>> THEN <<[name |-> <<"createdAt">>, dir |-> -1]>>
  ELSE [i \in 1..Len(Split(sort, ",")) |-> TokenEntry(Split(sort, ",")[i])]

\* the same, with a field that is listed more than once taking the
\* direction of its last token
LastDirectionOrder(sort) ==
  LET listed == ListedOrder(sort)
      last(i) == CHOOSE j \in i..Len(listed) :
                   /\ listed[j].name = listed[i].name
                   /\ \A k \in (j + 1)..Len(listed) : listed[k].name # listed[i].name
  IN [i \in 1..Len(listed) |-> listed[last(i)]]

\* the data of a response is ordered by the pairs of obj, earlier pairs first
OrderedBy(obj) ==
  LET coll == IF resp.op = "getAllFlats" THEN "flats" ELSE "users" IN
    \A i, j \in 1..Len(resp.data) :
      i < j => ~Before(resp.data[j], resp.data[i], obj, coll)

Sorted == resp.op \in {"getAllFlats", "getAllUsers"} /\ resp.status = 200

\* C14 as stated: the result is ordered by the listed fields, earlier fields
\* first, each descending exactly when its token starts with `-`; createdAt
\* descending when sort is absent.
C14_SortFollowsListedFields == Sorted => OrderedBy(ListedOrder(resp.query[1].sort))

\* C14 amended: the same, except that a field listed more than once keeps
\* the place of its first token and takes the direction of its last token.
C14_SortFollowsLastDirection == Sorted => OrderedBy(LastDirectionOrder(resp.query[1].sort))

\* sort=city,-rentPrice on two listings of one city: the dearer one first
C14_Witness ==
  /\ resp.op = "getAllFlats" /\ resp.status = 200
  /\ resp.query[1].sort = <<"city", ",", "-", "rentPrice">>
  /\ Len(resp.data) = 2
  /\ flats[resp.data[1]].city = flats[resp.data[2]].city
  /\ flats[resp.data[1]].rentPrice > flats[resp.data[2]].rentPrice


(* --------------------------- membership lists -------------------------- *)
\* a field value equals a list segment: as a number when the segment parses
\* as one, as a string otherwise
EqualsSegment(fv, seg) ==
  IF Trim(seg) = <<>> \/ Signed(Trim(seg))
    THEN fv.t = "num" /\ fv.n = (IF Trim(seg) = <<>> THEN 0
                                 ELSE IF Head(Trim(seg)) = "-"
                                   THEN 0 - Decimal(Tail(Trim(seg)), 0)
                                 ELSE Decimal(Trim(seg), 0))
    ELSE fv.t = "str" /\ fv.s = seg

MemberOfList(fv, value) ==
  \E n \in 1..Len(Split(value, ",")) : EqualsSegment(fv, Split(value, ",")[n])

\* C15: for every filter parameter with a comma in its value, every returned
\* listing's field value is a member of the comma-split list, numbers
\* compared as numbers and the rest as strings; a value with both `,` and
\* `-` is a list, not a range: the listings that are members are returned.
C15_CommaListIsMembership ==
  resp.op = "getAllFlats" /\ resp.status = 200 =>
    LET q == resp.query[1] IN
      /\ \A i \in 1..Len(q.filters) :
           Includes(q.filters[i].value, ",") =>
             \A n \in 1..Len(resp.data) :
               MemberOfList(FlatField(flats[resp.data[n]], q.filters[i].key),
                            q.filters[i].value)
      /\ (SingleFilter /\ Includes(q.filters[1].value, ",")) =>
           Range(resp.data) =
             {f \in DOMAIN flats :
                /\ Exists(users, flats[f].owner)
                /\ MemberOfList(FlatField(flats[f], q.filters[1].key), q.filters[1].value)}

\* city=Alba-Iulia,Cluj returned a listing in Alba-Iulia
C15_Witness ==
  /\ SingleFilter /\ resp.status = 200
  /\ resp.query[1].filters[1] =
       [key |-> "city", value |-> <<"Alba", "-", "Iulia", ",", "Cluj">>]
  /\ \E f \in Range(resp.data) : flats[f].city = <<"Alba", "-", "Iulia">>


(* ---------------------------- worked example --------------------------- *)
ExampleQuery ==
  Query(<<[key |-> "rentPrice", value |-> <<"3", "0", "0", "-", "6", "0", "0">>]>>,
        <<"-", "rentPrice">>, <<1>>, <<2>>)

\* C16: on the five listings with rents 200, 350, 600, 700 and 450,
\* rentPrice=300-600 with sort=-rentPrice, page=1 and limit=2 returns exactly
\* the listings priced 600 and 450, in that order, with count 2 and
\* totalCount 3.
C16_ExampleReturns600Then450 ==
  resp.op = "getAllFlats" /\ resp.query = <<ExampleQuery>> =>
    /\ resp.status = 200
    /\ [n \in DOMAIN resp.data |-> flats[resp.data[n]].rentPrice] = <<600, 450>>
    /\ Len(resp.data) = 2
    /\ resp.totalCount = 3

C16_Witness ==
  /\ resp.op = "getAllFlats" /\ resp.query = <<ExampleQuery>>
  /\ [f \in DOMAIN flats |-> flats[f].rentPrice] = <<200, 350, 600, 700, 450>>


(* ------------------------------ derived age ---------------------------- *)
\* month/day a comes before month/day b
MonthDayPrecedes(a, b) == a.m < b.m \/ (a.m = b.m /\ a.d < b.d)

\* C17: the derived age is current year - birth year, less one exactly when
\* the current month/day precedes the birth month/day (a birth date N years
\* before today gives N, one whose month/day is the day after today's gives
\* N - 1), and the birthDate validator computes the same age.
C17_AgeFormulaAndValidatorAgree ==
  resp.op = "age" =>
    LET dob == users[resp.target].birthDate
        N == today.y - dob.y
    IN /\ resp.data[1] = N - (IF MonthDayPrecedes(today, dob) THEN 1 ELSE 0)
       /\ (dob.m = today.m /\ dob.d = today.d) => resp.data[1] = N
       /\ (NextDay(today).y = today.y /\ dob.m = NextDay(today).m /\ dob.d = NextDay(today).d)
            => resp.data[1] = N - 1
       /\ session.prev = resp.data

\* the age formula alone, which the pipeline satisfies
C17_PipelineAgeFormula ==
  resp.op = "age" =>
    resp.data[1] = (today.y - users[resp.target].birthDate.y)
                     - (IF MonthDayPrecedes(today, users[resp.target].birthDate) THEN 1 ELSE 0)


(* ----------------------------- unique emails --------------------------- *)
\* an account other than `except` holds the email
InUse(email, except) ==
  \E u \in DOMAIN users : u # except /\ users[u].email = email

UniqueEmails ==
  \A u, v \in DOMAIN users : u # v => users[u].email # users[v].email

\* C18: no two accounts ever have the same email; register with an email in
\* use answers 400 `Email already exists`, updateProfile 400 `Email already
\* in use`, and every account is left unchanged.
C18_EmailsStayUnique ==
  [][/\ UniqueEmails'
     /\ (resp'.op = "register" /\ InUse(resp'.query[1].value, NoId)) =>
          /\ resp'.status = 400 /\ resp'.data = <<"Email already exists">>
          /\ users' = users
     /\ (resp'.op = "updateProfile" /\ resp'.query[1].key = "email"
           /\ InUse(resp'.query[1].value, resp'.caller)) =>
          /\ resp'.status = 400 /\ resp'.data = <<"Email already in use">>
          /\ users' = users
    ]_vars

\* C18, with the register answer told apart by the rest of the body: with a
\* password that passes validation it is `Email already exists`, with one
\* that fails it `Validation error`.
C18_EmailsStayUniqueValidBody ==
  [][/\ UniqueEmails'
     /\ (resp'.op = "register" /\ InUse(resp'.query[1].value, NoId)) =>
          /\ resp'.status = 400
          /\ resp'.data = IF resp'.query[1].password >= 1
                            THEN <<"Email already exists">> ELSE <<"Validation error">>
          /\ users' = users
     /\ (resp'.op = "updateProfile" /\ resp'.query[1].key = "email"
           /\ InUse(resp'.query[1].value, resp'.caller)) =>
          /\ resp'.status = 400 /\ resp'.data = <<"Email already in use">>
          /\ users' = users
    ]_vars

\* register and updateProfile have both refused an email in use
C18_Witness ==
  /\ resp.op = "updateProfile" /\ resp.status = 400
  /\ resp.data = <<"Email already in use">>
  /\ InUse(resp.query[1].value, resp.caller)
  /\ UniqueEmails


(* ------------------------------ admin routes --------------------------- *)
AdminOps == {"getAllUsers", "editUserById", "updateRole", "deleteUserById", "getUserById"}

\* the caller's stored role is not `admin`
NotAdminRole(caller) == caller \in DOMAIN users /\ users[caller].role # "admin"

\* C19: every admin route answers 403 and changes no state when the caller's
\* stored role at the time of the request is not `admin`; so a user whose
\* role updateRole has set to `user` is refused with the token it still holds.
C19_AdminRoutesRefuseNonAdmin ==
  [][(resp'.op \in AdminOps /\ NotAdminRole(resp'.caller)) =>
       /\ resp'.status = 403
       /\ <<users, flats, messages, cloud, tokens>>' = <<users, flats, messages, cloud, tokens>>
    ]_vars

\* the seeded administrator, demoted by updateRole, was refused on an admin
\* route with the token issued while it was an administrator
C19_Witness ==
  /\ resp.op \in AdminOps /\ resp.status = 403 /\ resp.caller = 1
  /\ users[1].role = "user"
  /\ \E tok \in tokens : tok.id = 1 /\ ProtectStatus(tok) = 200


(* ------------------------------ page window ---------------------------- *)
PageOf(q) == IF q.page = <<>> THEN 1 ELSE q.page[1]
LimitOf(q) == IF q.limit = <<>> THEN 100000 ELSE q.limit[1]
SkipOf(q) == (PageOf(q) - 1) * LimitOf(q)

\* data is the records skip + 1 .. skip + limit of one sorted order of the
\* full result
IsWindowOf(data, full, obj, coll, skip, limit) ==
  /\ Len(data) = (IF Cardinality(full) - skip < 0 THEN 0
                  ELSE IF Cardinality(full) - skip < limit THEN Cardinality(full) - skip
                  ELSE limit)
  /\ \E order \in SortedOrders(full, obj, coll) :
       \A n \in 1..Len(data) : data[n] = order[skip + n]

\* C20: getAllFlats and getAllUsers skip (page - 1) * limit records and take
\* limit records, page defaulting to 1 and limit to 100000; nothing is
\* clamped: a page of 0 or below gives a negative skip, which the pipeline
\* is run with.
C20_PageWindowUnclamped ==
  (resp.op \in {"getAllFlats", "getAllUsers"} /\ resp.status # 403) =>
    LET q == resp.query[1] IN
      /\ (SkipOf(q) < 0) => resp.status = 500
      /\ (PageOf(q) <= 0 /\ LimitOf(q) > 0) => SkipOf(q) < 0
      /\ resp.status = 200 =>
           IF resp.op = "getAllFlats"
             THEN IsWindowOf(resp.data, FullFlats(q), SortObj(q.sort), "flats",
                             SkipOf(q), LimitOf(q))
             ELSE IsWindowOf(resp.data, FullUsers(q), SortObj(q.sort), "users",
                             SkipOf(q), LimitOf(q))

\* page=0 with limit=1 was answered with an error
C20_Witness ==
  /\ resp.op = "getAllFlats" /\ resp.status = 500
  /\ resp.query[1].page = <<0>> /\ resp.query[1].limit = <<1>>
  /\ resp.query[1].filters = <<>> /\ resp.query[1].sort = <<>>

(* ------------------------------ fault machine -------------------------- *)
\* POST /flats with every request input and every store operation that can
\* reject
FaultAddFlat ==
  \E caller \in DOMAIN users, hasFile \in BOOLEAN, r \in 0..MaxRent,
     city \in Cities, failing \in StoreFaults :
    /\ addFlatWhen(caller, hasFile, r, city, failing)
    /\ UNCHANGED steps

FaultNext == Tick \/ FaultAddFlat

FaultSpec == Init /\ [][FaultNext]_vars

(* ------------------------------ reset tokens --------------------------- *)
TenMinutes == 600000

\* the record of an issued token, and what can be wrong with it
Superseded(r) == \E later \in resetLog : later.user = r.user /\ later.token > r.token
Expired(r) == now >= r.at + TenMinutes

\* C21: resetPassword succeeds only with the token most recently issued by
\* forgotPassword for the account, less than 10 minutes after it was issued
\* and not yet used; a superseded, expired or used token is refused with 404
\* and the password and passwordChangedAt stay as they were.
C21_ResetNeedsLatestFreshUnusedToken ==
  [][(resp'.op = "resetPassword" /\ now' = now) =>
       /\ resp'.status = 200 =>
            \E r \in resetLog :
              /\ r.token = resp'.target /\ r.user = resp'.caller
              /\ ~Superseded(r) /\ ~Expired(r) /\ ~r.used
       /\ \A r \in resetLog :
            (r.token = resp'.target /\ (Superseded(r) \/ Expired(r) \/ r.used)) =>
              /\ resp'.status = 404
              /\ users'[r.user].password = users[r.user].password
              /\ users'[r.user].passwordChangedAt = users[r.user].passwordChangedAt
    ]_vars

\* a token was refused ten minutes after it was issued, not superseded and
\* not used
C21_Witness ==
  /\ resp.op = "resetPassword" /\ resp.status = 404
  /\ \E r \in resetLog :
       /\ r.token = resp.target /\ r.sent /\ ~r.used /\ ~Superseded(r)
       /\ now = r.at + TenMinutes
       /\ users[r.user].passwordResetToken = Sha256(r.token)


(* ---------------------------- failed reset mail ------------------------ *)
\* the latest token issued for an account
LatestFor(u) ==
  {r \in resetLog : r.user = u /\ \A o \in resetLog : o.user = u => o.token <= r.token}

\* C25: when the reset email fails, forgotPassword clears passwordResetToken
\* and passwordResetTokenExpires before it answers 500, and from then on no
\* token makes resetPassword succeed for the account until forgotPassword
\* is called again.
C25_FailedMailLeavesNoToken ==
  [][/\ (resp'.op = "forgotPassword" /\ resp'.status = 500 /\ nextReset' # nextReset) =>
          /\ users'[resp'.target].passwordResetToken = NoId
          /\ users'[resp'.target].passwordResetTokenExpires = NoDate
     /\ (resp'.op = "resetPassword" /\ now' = now /\ resp'.status = 200) =>
          \A r \in LatestFor(resp'.caller) : r.sent
    ]_vars

\* the token of a failed email was tried and refused
C25_Witness ==
  /\ resp.op = "resetPassword" /\ resp.status = 404
  /\ \E r \in resetLog :
       /\ r.token = resp.target /\ ~r.sent /\ r \in LatestFor(r.user)
       /\ now < r.at + TenMinutes


(* --------------------------- email change tokens ----------------------- *)
\* C22: once updateProfile has changed the account's email, protect refuses
\* the token the user held before the change; only the token returned by
\* that updateProfile is accepted.
C22_EmailChangeInvalidatesToken ==
  (resp.op = "protect" /\ resp.data[1].replaced /\ Exists(users, resp.caller))
    => resp.status = 401


(* ----------------------------- message views --------------------------- *)
\* the messages of a listing that a set of senders wrote
WrittenBy(flatId, senders) ==
  {m \in DOMAIN messages : messages[m].flatId = flatId /\ messages[m].senderId \in senders}

Admins(us) == {u \in DOMAIN us : us[u].role = "admin"}

\* the request was made without a token, or by a caller whose role is `user`
ByNonAdmin(r) ==
  \/ r.op \in {"register", "login"}
  \/ r.caller \in DOMAIN users /\ users[r.caller].role = "user"

\* C24: no request made by a caller whose role is `user`, or by nobody,
\* makes an account's role `admin`: register stores the role `user` whatever
\* the body carries, updateProfile answers 400 to a role field and changes
\* nothing, and the role-changing routes refuse the caller.
C24_NoEscalationByNonAdmins ==
  [][ByNonAdmin(resp') =>
       /\ Admins(users') \subseteq Admins(users)
       /\ (resp'.op = "register" /\ resp'.status = 200) =>
            users'[resp'.target].role = "user"
       /\ (resp'.op = "updateProfile" /\ resp'.query[1].key = "role") =>
            resp'.status = 400 /\ users' = users
       /\ resp'.op \in {"editUserById", "updateRole"} =>
            resp'.status = 403 /\ users' = users
    ]_vars

\* a registration that asked for the role `admin` was stored with `user`
C24_Witness ==
  /\ resp.op = "register" /\ resp.status = 200
  /\ resp.query[1].role = "admin"
  /\ users[resp.target].role = "user"


(* ------------------------------ owned listings ------------------------- *)
\* C26: in every reachable state each user's addedFlats holds exactly the
\* listings whose owner is that user, each once, so publishedFlatsCount is
\* the number of listings the user owns.
C26_AddedFlatsAreOwnedFlats ==
  \A u \in DOMAIN users :
    /\ Range(users[u].addedFlats) = FlatsOwnedBy(u)
    /\ Len(users[u].addedFlats) = Cardinality(FlatsOwnedBy(u))
    /\ PublishedFlatsCount(u) = Cardinality(FlatsOwnedBy(u))


(* ---------------------------- message references ----------------------- *)
\* C27: in every reachable state every id in a listing's messages refers to
\* an existing Message whose flatId is that listing.
C27_ListingMessagesExist ==
  \A f \in DOMAIN flats :
    \A m \in Range(flats[f].messages) :
      m \in DOMAIN messages /\ messages[m].flatId = f


(* --------------------------- concurrent requests ----------------------- *)
AllDone == \A i \in 1..Len(inflight) : inflight[i].pc = "done"

DeletedWhileOthersRan(f) ==
  /\ \E i \in 1..Len(inflight) :
       inflight[i].op = "deleteFlat" /\ inflight[i].flat = f /\ inflight[i].status = 200
  /\ \A i \in 1..Len(inflight) :
       inflight[i].op # "deleteFlat" =>
         /\ inflight[i].op \in {"addToFavorites", "addMessage"}
         /\ inflight[i].flat = f
         /\ inflight[i].caller # 1

\* C28: once deleteFlat on listing 1 has answered 200 and the addToFavorites
\* and addMessage requests of the other user that ran with it have all
\* answered, no favoriteFlats contains the listing and no Message has its id
\* as flatId.
C28_DeleteFlatLeavesNoReference ==
  (AllDone /\ DeletedWhileOthersRan(1)) =>
    /\ \A u \in DOMAIN users : ~Includes(users[u].favoriteFlats, 1)
    /\ \A m \in DOMAIN messages : messages[m].flatId # 1

NoDuplicates(s) == Len(s) = Cardinality(Range(s))

\* request i passes its check of favoriteFlats in this step
ChecksFavorites(i, op, pc) ==
  /\ i <= Len(inflight)
  /\ At(i, op, pc)
  /\ inflight'[i].pc # pc
  /\ Exists(users, inflight[i].caller)

\* C29: no favoriteFlats ever holds a listing twice, whatever the order of the
\* steps of the addToFavorites and removeFromFavorites requests; an
\* addToFavorites that finds the listing in favoriteFlats answers 400, so does
\* a removeFromFavorites that does not find it, and neither changes the list.
C29_FavoritesHoldNoDuplicates ==
  [][ /\ \A u \in DOMAIN users' : NoDuplicates(users'[u].favoriteFlats)
      /\ \A i \in 1..MaxRequests :
           /\ (ChecksFavorites(i, "addToFavorites", "user")
               /\ Includes(users[inflight[i].caller].favoriteFlats, inflight[i].flat))
                => (inflight'[i].status = 400 /\ resp'.status = 400 /\ users' = users)
           /\ (ChecksFavorites(i, "removeFromFavorites", "start")
               /\ ~Includes(users[inflight[i].caller].favoriteFlats, inflight[i].flat))
                => (inflight'[i].status = 400 /\ resp'.status = 400 /\ users' = users)
    ]_vars


(* ------------------------------ failed addFlat ------------------------- *)
\* C30: an addFlat that answers 400 or 500 stores no listing, leaves every
\* addedFlats as it was and leaves no uploaded image behind; an addFlat that
\* answers 201 has stored the listing with its image and put its id in the
\* owner's addedFlats.
C30_FailedAddFlatLeavesNothing ==
  [][(resp'.op = "addFlat" /\ now' = now) =>
       /\ resp'.status \in {400, 500} =>
            /\ flats' = flats
            /\ \A u \in DOMAIN users : users'[u].addedFlats = users[u].addedFlats
            /\ nextImg' # nextImg => nextImg \notin cloud'
       /\ resp'.status = 201 =>
            LET f == resp'.target IN
            /\ ~Exists(flats, f) /\ Exists(flats', f)
            /\ flats'[f].image = nextImg /\ nextImg \in cloud'
            /\ Includes(users'[flats'[f].owner].addedFlats, f)
    ]_vars

====
